---- MODULE Spec2Model ----
(***************************************************************************)
(* Internet of Emotions: the priority scheduler (SmartScheduler) of        *)
(* backend/smart_scheduler.py and of the scheduler service                 *)
(* (backend/services/scheduler/app.py), the lazily loaded models of the    *)
(* ML analyzer service (backend/services/ml_analyzer/app.py), the result   *)
(* cache (SmartCacheManager) and the consensus aggregation of a country's  *)
(* posts (CountryEmotionAggregator).                                       *)
(*                                                                         *)
(* Python floats are modelled as exact rationals <<n, d>> in lowest terms  *)
(* with d > 0; datetime values are whole seconds on one wall clock.        *)
(***************************************************************************)
EXTENDS Integers, Sequences, FiniteSets, TLC

\* ---------------------------------------------------------------- bounds
\* Longest tracked-country list given to the constructor.
MaxTracked == 22
\* Number of calls (and clock advances) in one behaviour.
MaxCalls == 3
\* Number of calls in a behaviour that only records fetch outcomes.
MaxOutcomeCalls == 6
\* Number of cache calls (and clock advances) in one behaviour.
MaxCacheCalls == 5
\* Largest number of posts handed to the aggregator in one call.
MaxObservations == 3
\* Largest number of time windows handed to the trend classification.
MaxWindows == 6

\* ------------------------------------------------------------- rationals
RECURSIVE Gcd(_, _)
Gcd(a, b) == IF b = 0 THEN a ELSE Gcd(b, a % b)

Abs(x) == IF x < 0 THEN -x ELSE x

Rat(n, d) ==
  LET g == Gcd(Abs(n), Abs(d))
      s == IF d < 0 THEN -1 ELSE 1
  IN  << (s * n) \div g, (s * d) \div g >>

R(n) == << n, 1 >>

RatNeg(a) == << -a[1], a[2] >>

RatAdd(a, b) ==
  LET g == Gcd(a[2], b[2])
  IN  Rat(a[1] * (b[2] \div g) + b[1] * (a[2] \div g), (a[2] \div g) * b[2])

RatMul(a, b) ==
  LET g1 == Gcd(Abs(a[1]), b[2])
      g2 == Gcd(Abs(b[1]), a[2])
  IN  << (a[1] \div g1) * (b[1] \div g2), (a[2] \div g2) * (b[2] \div g1) >>

\* a / b for b > 0
RatDiv(a, b) == RatMul(a, << b[2], b[1] >>)

\* an/ad < bn/bd for non-negative numerators, by the continued-fraction
\* expansion (no cross product, so no 32-bit overflow)
RECURSIVE LessNN(_, _, _, _)
LessNN(an, ad, bn, bd) ==
  LET qa == an \div ad
      qb == bn \div bd
      ra == an % ad
      rb == bn % bd
  IN  IF qa # qb THEN qa < qb
      ELSE IF rb = 0 THEN FALSE
      ELSE IF ra = 0 THEN TRUE
      ELSE LessNN(bd, rb, ad, ra)

RatLess(a, b) ==
  IF a[1] < 0
    THEN IF b[1] < 0 THEN LessNN(-b[1], b[2], -a[1], a[2]) ELSE TRUE
    ELSE IF b[1] < 0 THEN FALSE ELSE LessNN(a[1], a[2], b[1], b[2])

RatLeq(a, b) == ~RatLess(b, a)

RatMin(a, b) == IF RatLess(b, a) THEN b ELSE a

RatMax(a, b) == IF RatLess(a, b) THEN b ELSE a

\* ------------------------------------------------------------- countries
ALL_COUNTRIES ==
  << "USA", "UK", "Canada", "Australia", "India", "Germany",
     "France", "Japan", "Brazil", "Mexico", "Spain", "Italy",
     "Netherlands", "Sweden", "Norway", "Denmark", "Finland", "Poland",
     "Russia", "China", "South Korea", "Indonesia", "Philippines", "Thailand",
     "Vietnam", "Malaysia", "Singapore", "Turkey", "Egypt", "South Africa",
     "Nigeria", "Kenya", "Argentina", "Chile", "Colombia", "Peru",
     "Venezuela", "New Zealand", "Ireland", "Switzerland", "Austria", "Belgium",
     "Greece", "Portugal", "Czech Republic", "Hungary", "Romania", "Ukraine",
     "Israel", "Saudi Arabia", "UAE", "Pakistan", "Bangladesh" >>

LowerCased ==
  << "usa", "uk", "canada", "australia", "india", "germany",
     "france", "japan", "brazil", "mexico", "spain", "italy",
     "netherlands", "sweden", "norway", "denmark", "finland", "poland",
     "russia", "china", "south korea", "indonesia", "philippines", "thailand",
     "vietnam", "malaysia", "singapore", "turkey", "egypt", "south africa",
     "nigeria", "kenya", "argentina", "chile", "colombia", "peru",
     "venezuela", "new zealand", "ireland", "switzerland", "austria", "belgium",
     "greece", "portugal", "czech republic", "hungary", "romania", "ukraine",
     "israel", "saudi arabia", "uae", "pakistan", "bangladesh" >>

StringOrder ==
  << "Argentina", "Atlantis", "Australia", "Austria", "Bangladesh", "Belgium",
     "Brazil", "Canada", "Chile", "China", "Colombia", "Czech Republic",
     "Denmark", "Egypt", "Finland", "France", "Germany", "Greece",
     "Hungary", "India", "Indonesia", "Ireland", "Israel", "Italy",
     "Japan", "Kenya", "Malaysia", "Mexico", "Netherlands", "New Zealand",
     "Nigeria", "Norway", "Pakistan", "Peru", "Philippines", "Poland",
     "Portugal", "Romania", "Russia", "Saudi Arabia", "Singapore", "South Africa",
     "South Korea", "Spain", "Sweden", "Switzerland", "Thailand", "Turkey",
     "UAE", "UK", "USA", "Ukraine", "Venezuela", "Vietnam" >>

\* a name the scheduler does not track (update_metrics accepts any key)
Untracked == "Atlantis"

IndexOf(s, x) == CHOOSE i \in 1..Len(s) : s[i] = x

\* Python's str.lower() on the tracked names
Lower(country) == LowerCased[IndexOf(ALL_COUNTRIES, country)]

\* Python's ordering of str, used when two heap tuples tie on the score
StrLess(a, b) == IndexOf(StringOrder, a) < IndexOf(StringOrder, b)

high_priority ==
  [c \in {"usa", "india", "china", "brazil", "uk", "canada", "australia",
          "germany", "france", "japan", "south korea", "russia", "mexico",
          "spain", "italy", "turkey"} |->
     CASE c = "usa" -> 10
       [] c \in {"india", "uk"} -> 9
       [] c \in {"china", "canada"} -> 8
       [] c \in {"brazil", "australia", "germany"} -> 7
       [] c \in {"france", "japan", "south korea", "russia"} -> 6
       [] OTHER -> 5]

medium_priority ==
  [c \in {"poland", "netherlands", "sweden", "argentina", "indonesia",
          "philippines", "thailand", "south africa", "egypt", "nigeria"} |-> 4]

\* the defaultdict factory of country_metrics
DefaultMetrics ==
  [last_fetch |-> << >>, post_rate |-> R(0), importance |-> R(1),
   success_rate |-> R(1), consecutive_failures |-> 0]

\* _initialize_country_priorities: the importance given to a tracked country
InitialImportance(country) ==
  LET country_lower == Lower(country)
  IN  IF country_lower \in DOMAIN high_priority
        THEN R(high_priority[country_lower])
      ELSE IF country_lower \in DOMAIN medium_priority
        THEN R(medium_priority[country_lower])
      ELSE R(2)

\* ----------------------------------------------------------------- state
VARIABLES
  all_countries,     \* SmartScheduler.all_countries, the tracked list
  country_metrics,   \* SmartScheduler.country_metrics: name -> metrics
  priority_queue,    \* SmartScheduler.priority_queue: (-score, country) tuples
  current_interval,  \* SmartScheduler.current_interval, seconds
  raw_posts,         \* the database: stored posts per country
  now,               \* the wall clock, seconds
  ret,               \* the last call, its arguments and what it returned
  calls,             \* calls and clock advances so far
  call_limit,        \* calls and clock advances allowed in this behaviour
  outcomes,          \* history: the fetch outcomes recorded, oldest first
  pc,                \* thread -> where the thread is in its code
  frame,             \* thread -> the thread's arguments and locals
  models,            \* ml_analyzer: the global models, name -> handle
  models_loaded,     \* ml_analyzer: the global models_loaded
  last_model_use_time, \* ml_analyzer: the global last_model_use_time
  cache,             \* SmartCacheManager.cache: cache_key -> value
  cache_times,       \* SmartCacheManager.cache_times: cache_key -> time
  cache_log,         \* history: cache_key -> the latest set of it
  observations,      \* the posts handed to the aggregator
  rotation,          \* the CircularRotation of the post fetcher
  limiter,           \* the RateLimiter of the Reddit calls
  channel            \* service -> its queue and the delivery being handled

scheduler_vars ==
  << all_countries, country_metrics, priority_queue, current_interval,
     raw_posts >>

thread_vars == << pc, frame >>

ml_vars == << models, models_loaded, last_model_use_time >>

cache_vars == << cache, cache_times, cache_log >>

vars ==
  << scheduler_vars, now, ret, calls, call_limit, outcomes, thread_vars,
     ml_vars, cache_vars, observations, rotation, limiter, channel >>

\* what no method of the scheduler touches
beyond_scheduler ==
  << call_limit, thread_vars, ml_vars, cache_vars, observations, rotation, limiter, channel >>

min_interval == 30
max_interval == 600
initial_interval == 120
optimal_batch_size == 3
max_batch_size == 10
SecondsPerHour == 3600

Range(s) == { s[i] : i \in 1..Len(s) }

\* the lists the constructor is given: contiguous runs of ALL_COUNTRIES
TrackedLists ==
  { SubSeq(ALL_COUNTRIES, w[1], w[2]) :
      w \in { <<1, 0>>, <<15, 15>>, <<15, 17>>, <<1, 6>>, <<1, MaxTracked>> } }

\* stored-post counts on either side of every data-need threshold
PostCounts == { 0, 100 }

\* the names whose fetch outcomes are reported: the first tracked country,
\* and a name the scheduler does not track when the list is that short
Targets ==
  { all_countries[i] : i \in { 1 } \cap DOMAIN all_countries } \cup
    (IF Len(all_countries) <= 1 THEN { Untracked } ELSE { })

\* fetch results: result.get('error'), result.get('stored', 0)
FetchResults ==
  { [error |-> TRUE, stored |-> 0] } \cup
  { [error |-> FALSE, stored |-> k] : k \in { 0, 30 } }

\* seconds that may pass between the two datetime.now() of update_metrics
CallDelays == { 0, SecondsPerHour }

\* seconds by which the clock advances between calls: past the 72 hours at
\* which the time decay stops growing
TickSteps == { 96 * SecondsPerHour }

\* a CircularRotation that is not in use
NoRotation ==
  [countries |-> << >>, current_index |-> 0, cycle_number |-> 0,
   countries_per_batch |-> 0, lock |-> "None", entered |-> 0]

NoRet == [op |-> "init"]

\* Python's None
None == "None"

\* a RateLimiter that is not in use
NoLimiter ==
  [max_calls |-> 0, period |-> 0, calls |-> << >>, lock |-> "None",
   admitted |-> << >>]

\* no service consumes from a queue
NoChannel == << >>

\* the keys of the global models of the ML analyzer service
ModelNames == { "roberta", "bart", "ner", "vader" }

\* country_metrics[country] of a defaultdict
Metrics(country) ==
  IF country \in DOMAIN country_metrics
    THEN country_metrics[country]
    ELSE DefaultMetrics

\* SmartScheduler.__init__ on one of the given tracked lists
SchedulerInit(lists) ==
  /\ all_countries \in lists
  /\ country_metrics =
       [c \in Range(all_countries) |->
          [DefaultMetrics EXCEPT !.importance = InitialImportance(c)]]
  /\ priority_queue = << >>
  /\ current_interval = initial_interval
  /\ \E p \in PostCounts :
       raw_posts = [c \in Range(ALL_COUNTRIES) \cup { Untracked } |-> p]
  /\ outcomes = << >>

\* no thread runs beside the caller
NoThreads ==
  /\ pc = << >>
  /\ frame = << >>

\* the module globals of the ML analyzer service at import
ModelsInit ==
  /\ models = [k \in ModelNames |-> None]
  /\ models_loaded = FALSE
  /\ last_model_use_time = 0

\* SmartCacheManager.__init__
CacheInit ==
  /\ cache = << >>
  /\ cache_times = << >>
  /\ cache_log = << >>

\* the scheduler alone, called from one thread
Init ==
  /\ SchedulerInit(TrackedLists)
  /\ NoThreads
  /\ ModelsInit
  /\ CacheInit
  /\ observations = << >>
  /\ rotation = NoRotation
  /\ limiter = NoLimiter
  /\ channel = NoChannel
  /\ now = 0
  /\ ret = NoRet
  /\ calls = 0
  /\ call_limit = MaxCalls

\* (datetime.now() - last_fetch).total_seconds() / 3600
HoursBetween(later, earlier) == Rat(later - earlier, SecondsPerHour)

\* data need with the two middle tiers exchanged
DataNeed_MiddleSwapped(raw_count) ==
  IF raw_count < 20 THEN R(10)
  ELSE IF raw_count < 50 THEN R(4)
  ELSE IF raw_count < 100 THEN R(7)
  ELSE R(1)

\* the data-need term of calculate_priority_score
DataNeed(raw_count) ==
  IF raw_count < 20 THEN R(10)
  ELSE IF raw_count < 50 THEN R(7)
  ELSE IF raw_count < 100 THEN R(4)
  ELSE R(1)

\* a penalty that rewards a failing country
SuccessPenalty_Doubled(metrics) ==
  IF metrics.consecutive_failures > 3
    THEN RatMul(metrics.success_rate, R(2))
    ELSE metrics.success_rate

\* a penalty that is halved one failure early
SuccessPenalty_FromThree(metrics) ==
  IF metrics.consecutive_failures > 2
    THEN RatMul(metrics.success_rate, Rat(1, 2))
    ELSE metrics.success_rate

\* the success-rate penalty of calculate_priority_score
SuccessPenalty(metrics) ==
  IF metrics.consecutive_failures > 3
    THEN RatMul(metrics.success_rate, Rat(1, 2))
    ELSE metrics.success_rate

\* the time-decay term of calculate_priority_score, read at time t
TimeDecay(metrics, t) ==
  IF metrics.last_fetch # << >>
    THEN RatMin(RatDiv(HoursBetween(t, metrics.last_fetch[1]), R(24)), R(3))
    ELSE R(5)

\* the activity boost of calculate_priority_score
ActivityBoost(metrics) ==
  RatAdd(R(1), RatMin(RatDiv(metrics.post_rate, R(10)), R(2)))

\* calculate_priority_score on given metrics, stored-post count and time
ScoreOf(metrics, raw_count, t) ==
  RatMul(
    RatMul(
      RatAdd(RatAdd(RatMul(DataNeed(raw_count), R(2)),
                    RatMul(metrics.importance, Rat(3, 2))),
             RatMul(TimeDecay(metrics, t), R(1))),
      SuccessPenalty(metrics)),
    ActivityBoost(metrics))

\* SmartScheduler.calculate_priority_score(country)
calculate_priority_score(country) ==
  ScoreOf(country_metrics[country], raw_posts[country], now)

\* a failure that leaves success_rate as it was
RecordFailure_NoDecay(m) ==
  [m EXCEPT !.consecutive_failures = @ + 1]

\* a failure that also lowers the country's importance
RecordFailure_DemotesImportance(m) ==
  [m EXCEPT !.consecutive_failures = @ + 1,
            !.success_rate = RatMul(@, Rat(9, 10)),
            !.importance = RatMul(@, Rat(9, 10))]

\* update_metrics, the branch of result.get('error')
RecordFailure(m) ==
  [m EXCEPT !.consecutive_failures = @ + 1,
            !.success_rate = RatMul(@, Rat(9, 10))]

\* a productive fetch whose success_rate is not capped
RecordStored_NoCap(m, stored, t2) ==
  LET m2 == [m EXCEPT !.consecutive_failures = 0,
                      !.success_rate = RatMul(@, Rat(11, 10))]
      hours == HoursBetween(t2, m2.last_fetch[1])
  IN  IF m2.last_fetch # << >> /\ RatLess(R(0), hours)
        THEN [m2 EXCEPT !.post_rate = RatDiv(R(stored), hours)]
        ELSE m2

\* update_metrics, the branch of posts_fetched > 0; t2 is the second
\* datetime.now(), and last_fetch already holds the first
RecordStored(m, stored, t2) ==
  LET m2 == [m EXCEPT !.consecutive_failures = 0,
                      !.success_rate = RatMin(RatMul(@, Rat(11, 10)), R(1))]
      hours == HoursBetween(t2, m2.last_fetch[1])
  IN  IF m2.last_fetch # << >> /\ RatLess(R(0), hours)
        THEN [m2 EXCEPT !.post_rate = RatDiv(R(stored), hours)]
        ELSE m2

\* an empty fetch that is booked like an error
RecordEmpty_AsError(m) ==
  [m EXCEPT !.consecutive_failures = @ + 1,
            !.success_rate = RatMul(@, Rat(9, 10))]

\* update_metrics, the branch of a fetch that stored nothing
RecordEmpty(m) ==
  [m EXCEPT !.consecutive_failures = @ + 1]

\* the metrics update_metrics leaves for a country whose metrics were m,
\* called at time t1 with the second clock reading at t2
UpdatedMetrics(m, result, t1, t2) ==
  LET m1 == [m EXCEPT !.last_fetch = << t1 >>]
  IN  IF result.error THEN RecordFailure(m1)
      ELSE IF result.stored > 0 THEN RecordStored(m1, result.stored, t2)
      ELSE RecordEmpty(m1)

\* SmartScheduler.update_metrics(country, result)
update_metrics(country, result) ==
  /\ calls < call_limit
  /\ \E d \in (IF ~result.error /\ result.stored > 0 THEN CallDelays ELSE { 0 }) :
       /\ country_metrics' =
            [c \in DOMAIN country_metrics \cup { country } |->
               IF c = country
                 THEN UpdatedMetrics(Metrics(country), result, now, now + d)
                 ELSE country_metrics[c]]
       /\ now' = now + d
  /\ calls' = calls + 1
  /\ ret' = [op |-> "update_metrics", country |-> country, result |-> result,
             before |-> Metrics(country), at |-> now]
  /\ outcomes' = Append(outcomes, [country |-> country, result |-> result,
                                    before |-> Metrics(country), at |-> now])
  /\ UNCHANGED << all_countries, priority_queue, current_interval, raw_posts >>
  /\ UNCHANGED beyond_scheduler

\* time passes between calls
tick(d) ==
  /\ calls < call_limit
  /\ now' = now + d
  /\ calls' = calls + 1
  /\ ret' = [op |-> "tick"]
  /\ UNCHANGED << scheduler_vars, outcomes, beyond_scheduler >>

\* ------------------------------------------------------------- the queue
\* Python's ordering of the (-score, country) tuples kept in the heap
TupleLess(a, b) ==
  \/ RatLess(a[1], b[1])
  \/ a[1] = b[1] /\ StrLess(a[2], b[2])

\* the number of items of the ascending heap[lo..hi] that are below item
RECURSIVE CountBelow(_, _, _, _)
CountBelow(heap, item, lo, hi) ==
  IF lo > hi THEN lo - 1
  ELSE LET mid == (lo + hi) \div 2
       IN  IF TupleLess(heap[mid], item)
             THEN CountBelow(heap, item, mid + 1, hi)
             ELSE CountBelow(heap, item, lo, mid - 1)

\* heapq.heappush: the heap is kept as the ascending sequence of its items
heappush(heap, item) ==
  LET k == CountBelow(heap, item, 1, Len(heap))
  IN  SubSeq(heap, 1, k) \o << item >> \o SubSeq(heap, k + 1, Len(heap))

\* heapq.heappop: << smallest item, remaining heap >>
heappop(heap) == << Head(heap), Tail(heap) >>

\* a key that is not negated: the heap then yields the lowest score first
QueueItem_Ascending(country) == << calculate_priority_score(country), country >>

\* the key under which get_next_batch pushes a country
QueueItem(country) == << RatNeg(calculate_priority_score(country)), country >>

\* the loop of get_next_batch that rebuilds the queue from countries i..
RECURSIVE RebuildQueue(_, _)
RebuildQueue(heap, i) ==
  IF i > Len(all_countries) THEN heap
  ELSE RebuildQueue(heappush(heap, QueueItem(all_countries[i])), i + 1)

\* batch sizing without the six-country tier
BatchSizeFor_NoMiddleTier(high_priority_count) ==
  IF high_priority_count > 10 THEN max_batch_size
  ELSE IF high_priority_count > 0 THEN optimal_batch_size
  ELSE 2

\* the batch size get_next_batch derives from the number of urgent countries
BatchSizeFor(high_priority_count) ==
  IF high_priority_count > 10 THEN max_batch_size
  ELSE IF high_priority_count > 5 THEN 6
  ELSE IF high_priority_count > 0 THEN optimal_batch_size
  ELSE 2

\* sum(1 for score, _ in priority_queue if -score > 15.0)
HighPriorityCount(heap) ==
  Cardinality({ i \in 1..Len(heap) : RatLess(R(15), RatNeg(heap[i][1])) })

\* the extraction loop of get_next_batch: n pops; << batch, remaining heap >>
RECURSIVE ExtractTop(_, _, _)
ExtractTop(heap, batch, n) ==
  IF n <= 0 THEN << batch, heap >>
  ELSE IF heap = << >> THEN ExtractTop(heap, batch, n - 1)
  ELSE LET p == heappop(heap)
       IN  ExtractTop(p[2], Append(batch, p[1][2]), n - 1)

Min2(a, b) == IF a < b THEN a ELSE b

\* get_next_batch once the queue is rebuilt, with the optional batch_size of
\* the scheduler service (<< >> is None): << batch, remaining heap >>
BatchFrom(heap, batch_size) ==
  LET size == IF batch_size = << >>
                THEN BatchSizeFor(HighPriorityCount(heap))
                ELSE batch_size[1]
  IN  ExtractTop(heap, << >>, Min2(size, Len(heap)))

\* SmartScheduler.get_next_batch() of smart_scheduler.py
get_next_batch ==
  LET r == BatchFrom(RebuildQueue(<< >>, 1), << >>)
  IN  /\ calls < call_limit
      /\ calls' = calls + 1
      /\ priority_queue' = r[2]
      /\ ret' = [op |-> "get_next_batch", batch_size |-> << >>, batch |-> r[1]]
      /\ UNCHANGED << all_countries, country_metrics, current_interval,
                      raw_posts, now, outcomes, beyond_scheduler >>

\* the sizes a /batch/next request may carry (None when it carries none)
RequestedSizes == { << >>, << 2 >>, << max_batch_size + 1 >> }

\* SmartScheduler.get_next_batch(db_conn, batch_size) of the scheduler service
service_get_next_batch ==
  LET heap == RebuildQueue(<< >>, 1)
  IN  /\ calls < call_limit
      /\ calls' = calls + 1
      /\ \E batch_size \in RequestedSizes :
           ret' = [op |-> "get_next_batch", batch_size |-> batch_size,
                   batch |-> BatchFrom(heap, batch_size)[1]]
      /\ UNCHANGED << scheduler_vars, now, outcomes, beyond_scheduler >>

\* ------------------------------------------------------------ the timing
\* the pending-analysis backlog sizes db.get_unanalyzed_count() may report
Backlogs == { 50, 100, 200, 201 }

\* the countries whose score is above the urgent threshold
UrgentCount ==
  Cardinality({ i \in 1..Len(all_countries) :
                  RatLess(R(15), calculate_priority_score(all_countries[i])) })

\* interval tiers that need both load signals at once
AdaptiveInterval_BothSignals(urgent_count, unanalyzed) ==
  IF urgent_count > 20 /\ unanalyzed > 200 THEN min_interval
  ELSE IF urgent_count > 10 /\ unanalyzed > 100 THEN 60
  ELSE IF urgent_count > 5 /\ unanalyzed > 50 THEN 120
  ELSE max_interval

\* the interval calculate_adaptive_interval chooses
AdaptiveInterval(urgent_count, unanalyzed) ==
  IF urgent_count > 20 \/ unanalyzed > 200 THEN min_interval
  ELSE IF urgent_count > 10 \/ unanalyzed > 100 THEN 60
  ELSE IF urgent_count > 5 \/ unanalyzed > 50 THEN 120
  ELSE max_interval

\* SmartScheduler.calculate_adaptive_interval()
calculate_adaptive_interval ==
  LET urgent_count == UrgentCount
  IN  /\ calls < call_limit
      /\ calls' = calls + 1
      /\ \E unanalyzed \in Backlogs :
           LET interval == AdaptiveInterval(urgent_count, unanalyzed)
           IN  /\ current_interval' = interval
               /\ ret' = [op |-> "calculate_adaptive_interval",
                          unanalyzed |-> unanalyzed, value |-> interval]
      /\ UNCHANGED << all_countries, country_metrics, priority_queue,
                      raw_posts, now, outcomes, beyond_scheduler >>

\* max(calculate_priority_score(c) for c in all_countries), from country i on
RECURSIVE MaxPriority(_, _)
MaxPriority(best, i) ==
  IF i > Len(all_countries) THEN best
  ELSE MaxPriority(RatMax(best, calculate_priority_score(all_countries[i])), i + 1)

\* what should_skip_cycle returns; max() of an empty sequence raises ValueError
ShouldSkip ==
  IF all_countries = << >>
    THEN [raised |-> TRUE, value |-> FALSE]
    ELSE [raised |-> FALSE,
          value |-> RatLess(MaxPriority(calculate_priority_score(all_countries[1]), 2),
                            R(5))]

\* SmartScheduler.should_skip_cycle()
should_skip_cycle ==
  /\ calls < call_limit
  /\ calls' = calls + 1
  /\ ret' = [op |-> "should_skip_cycle", raised |-> ShouldSkip.raised,
             value |-> ShouldSkip.value]
  /\ UNCHANGED << scheduler_vars, now, outcomes, beyond_scheduler >>

\* the class get_stats counts a score under
PriorityClass(score) ==
  IF RatLess(R(20), score) THEN "critical"
  ELSE IF RatLess(R(10), score) THEN "high"
  ELSE IF RatLess(R(5), score) THEN "medium"
  ELSE "low"

\* sum(m['success_rate'] for m in self.country_metrics.values()), over the
\* names StringOrder[lo..hi] that have metrics
RECURSIVE SumSuccessRates(_, _)
SumSuccessRates(lo, hi) ==
  IF lo > hi THEN R(0)
  ELSE IF lo = hi
    THEN IF StringOrder[lo] \in DOMAIN country_metrics
           THEN country_metrics[StringOrder[lo]].success_rate
           ELSE R(0)
  ELSE LET mid == (lo + hi) \div 2
       IN  RatAdd(SumSuccessRates(lo, mid), SumSuccessRates(mid + 1, hi))

\* what get_stats returns; the average divides by len(all_countries), and a
\* division by zero raises ZeroDivisionError
GetStats ==
  LET total_countries == Len(all_countries)
      class == [i \in 1..total_countries |->
                  PriorityClass(calculate_priority_score(all_countries[i]))]
      priority_distribution ==
        [k \in { "critical", "high", "medium", "low" } |->
           Cardinality({ i \in 1..total_countries : class[i] = k })]
  IN  IF total_countries = 0
        THEN [raised |-> TRUE, stats |-> << >>]
        ELSE [raised |-> FALSE,
              stats |->
                [total_countries |-> total_countries,
                 priority_distribution |-> priority_distribution,
                 current_interval |-> current_interval,
                 avg_success_rate |->
                   RatDiv(SumSuccessRates(1, Len(StringOrder)),
                          R(total_countries))]]

\* SmartScheduler.get_stats()
get_stats ==
  /\ calls < call_limit
  /\ calls' = calls + 1
  /\ ret' = [op |-> "get_stats", raised |-> GetStats.raised,
             stats |-> GetStats.stats]
  /\ UNCHANGED << scheduler_vars, now, outcomes, beyond_scheduler >>

\* ------------------------------------------------------ the specification
Next ==
  \/ \E c \in Targets, r \in FetchResults : update_metrics(c, r)
  \/ \E d \in TickSteps : tick(d)
  \/ get_next_batch
  \/ service_get_next_batch
  \/ calculate_adaptive_interval
  \/ should_skip_cycle
  \/ get_stats

Spec == Init /\ [][Next]_vars

\* ------------------------------------------- fetch outcomes, one after one
\* the scheduler of the first six countries, called from one thread
OutcomesInit ==
  /\ SchedulerInit({ SubSeq(ALL_COUNTRIES, 1, 6) })
  /\ NoThreads
  /\ ModelsInit
  /\ CacheInit
  /\ observations = << >>
  /\ rotation = NoRotation
  /\ limiter = NoLimiter
  /\ channel = NoChannel
  /\ now = 0
  /\ ret = NoRet
  /\ calls = 0
  /\ call_limit = MaxOutcomeCalls

\* the coordination loop recording outcomes while time passes
OutcomesNext ==
  \/ \E c \in Targets, r \in FetchResults : update_metrics(c, r)
  \/ \E d \in TickSteps : tick(d)

SpecOutcomes == OutcomesInit /\ [][OutcomesNext]_vars

\* ---------------------------------------------------------------- claims
Tracked == Range(all_countries)

NoRepeats(s) == \A i, j \in 1..Len(s) : s[i] = s[j] => i = j

\* the tracked countries scoring above the urgent threshold of 15.0
Urgent == { c \in Tracked : RatLess(R(15), calculate_priority_score(c)) }

\* a tracked country never fetched, with the metrics of construction
Untouched(c) ==
  /\ country_metrics[c].consecutive_failures = 0
  /\ country_metrics[c].last_fetch = << >>
  /\ country_metrics[c].success_rate = R(1)
  /\ country_metrics[c].post_rate = R(0)

\* C1: however the batch is requested (the service's explicit batch_size
\* included), get_next_batch returns no country twice and at most
\* max_batch_size (10) countries.
C1_BatchWithinMax ==
  ret.op = "get_next_batch" =>
    /\ Len(ret.batch) <= max_batch_size
    /\ NoRepeats(ret.batch)

\* C2: the batch holds tracked countries in descending score order, and every
\* returned country scores at least as high as every tracked country left out.
C2_TopByScore ==
  ret.op = "get_next_batch" =>
    LET batch == ret.batch
        score == [c \in Tracked |-> calculate_priority_score(c)]
    IN  /\ Range(batch) \subseteq Tracked
        /\ \A i \in 1..Len(batch) : \A c \in Tracked \ Range(batch) :
             RatLeq(score[c], score[batch[i]])
        /\ \A i \in 1..(Len(batch) - 1) :
             RatLeq(score[batch[i + 1]], score[batch[i]])

\* a batch that leaves countries out, is not a prefix of the tracked list and
\* spans different scores
C2_Witness ==
  /\ ret.op = "get_next_batch"
  /\ Len(ret.batch) >= 2
  /\ Tracked \ Range(ret.batch) # { }
  /\ ret.batch # SubSeq(all_countries, 1, Len(ret.batch))
  /\ RatLess(calculate_priority_score(ret.batch[Len(ret.batch)]),
             calculate_priority_score(ret.batch[1]))

\* C3: without an explicit size, the batch has exactly min(B, tracked)
\* countries, B being 10, 6, 3 or 2 as the number U of countries scoring
\* above 15.0 is above 10, above 5, above 0, or 0.
C3_BatchSizeByUrgency ==
  ret.op = "get_next_batch" /\ ret.batch_size = << >> =>
    LET U == Cardinality(Urgent)
        B == IF U > 10 THEN 10 ELSE IF U > 5 THEN 6 ELSE IF U > 0 THEN 3 ELSE 2
    IN  Len(ret.batch) = Min2(B, Len(all_countries))

\* more than ten urgent countries, ten of them returned
C3_Witness ==
  /\ ret.op = "get_next_batch"
  /\ ret.batch_size = << >>
  /\ Cardinality(Urgent) > 10
  /\ Len(ret.batch) = 10
  /\ Len(all_countries) > 10

C5_RatesWithinUnit ==
  \A c \in DOMAIN country_metrics :
    /\ RatLeq(R(0), country_metrics[c].success_rate)
    /\ RatLeq(country_metrics[c].success_rate, R(1))
    /\ country_metrics[c].consecutive_failures \in Nat

\* a productive fetch whose 1.1 factor would have passed 1.0
C5_Witness ==
  /\ ret.op = "update_metrics"
  /\ ~ret.result.error
  /\ ret.result.stored > 0
  /\ RatLess(R(1), RatMul(ret.before.success_rate, Rat(11, 10)))
  /\ country_metrics[ret.country].success_rate = R(1)

\* C6: a fetch that did not err and stored nothing adds one to
\* consecutive_failures and leaves success_rate and post_rate as they were.
C6_EmptyFetchIsSoft ==
  ret.op = "update_metrics" /\ ~ret.result.error /\ ret.result.stored = 0 =>
    LET m == country_metrics[ret.country]
        b == ret.before
    IN  /\ m.consecutive_failures = b.consecutive_failures + 1
        /\ m.success_rate = b.success_rate
        /\ m.post_rate = b.post_rate

\* an empty fetch for a country whose success_rate had already decayed
C6_Witness ==
  /\ ret.op = "update_metrics"
  /\ ~ret.result.error
  /\ ret.result.stored = 0
  /\ ret.before.success_rate # R(1)

\* C7: a productive fetch sets post_rate to stored / (hours between the
\* previous last_fetch and the call), and leaves it alone when no time has
\* passed since the previous last_fetch.
C7_PostRateOverElapsed ==
  ( /\ ret.op = "update_metrics"
    /\ ~ret.result.error
    /\ ret.result.stored > 0
    /\ ret.before.last_fetch # << >> ) =>
    LET previous == ret.before.last_fetch[1]
        m == country_metrics[ret.country]
    IN  m.post_rate =
          IF ret.at = previous
            THEN ret.before.post_rate
            ELSE RatDiv(R(ret.result.stored), HoursBetween(ret.at, previous))

\* the stored-post counts around the thresholds of the four data-need tiers
ProbeCounts == { 0, 19, 20, 49, 50, 99, 100, 250 }

\* the data-need tier of a stored-post count: below 20, [20, 50), [50, 100),
\* 100 or more
TierOf(k) ==
  IF k < 20 THEN 1 ELSE IF k < 50 THEN 2 ELSE IF k < 100 THEN 3 ELSE 4

\* C8: when a batch is computed, for every tracked country that still has
\* its metrics of construction, a stored-post count of a lower tier scores
\* strictly higher than one of a higher tier.
C8_TiersStrictlyDecrease ==
  ret.op = "get_next_batch" =>
    \A importance \in { country_metrics[c].importance :
                          c \in { t \in Tracked : Untouched(t) } } :
      LET m == [DefaultMetrics EXCEPT !.importance = importance]
          score == [k \in ProbeCounts |-> ScoreOf(m, k, now)]
      IN  \A k1, k2 \in ProbeCounts :
            TierOf(k1) < TierOf(k2) => RatLess(score[k2], score[k1])

\* scores were computed while some countries were untouched and one was not
C8_Witness ==
  /\ ret.op = "get_next_batch"
  /\ \E c \in Tracked : Untouched(c)
  /\ \E c \in Tracked : ~Untouched(c)
  /\ Cardinality({ country_metrics[c].importance : c \in Tracked }) > 2

\* C9: for any tracked list, should_skip_cycle returns true exactly when every
\* tracked country scores strictly below 5.0.
C9_SkipIffAllBelow ==
  ret.op = "should_skip_cycle" =>
    /\ ~ret.raised
    /\ ret.value = (\A c \in Tracked : RatLess(calculate_priority_score(c), R(5)))

\* C10: calculate_adaptive_interval returns min_interval, 60, 120 or
\* max_interval by the first tier that the urgent count or the backlog
\* passes, stores it, and current_interval is always within
\* [min_interval, max_interval].
C10_IntervalTiers ==
  /\ min_interval <= current_interval
  /\ current_interval <= max_interval
  /\ ret.op = "calculate_adaptive_interval" =>
       LET urgentCount == Cardinality(Urgent)
           backlog == ret.unanalyzed
           expected ==
             CASE urgentCount > 20 \/ backlog > 200 -> min_interval
               [] urgentCount <= 20 /\ backlog <= 200
                    /\ (urgentCount > 10 \/ backlog > 100) -> 60
               [] urgentCount <= 10 /\ backlog <= 100
                    /\ (urgentCount > 5 \/ backlog > 50) -> 120
               [] OTHER -> max_interval
       IN  ret.value = expected /\ current_interval = expected

\* the 60-second tier chosen by the urgent count alone
C10_Witness ==
  /\ ret.op = "calculate_adaptive_interval"
  /\ ret.unanalyzed <= 100
  /\ Cardinality(Urgent) > 10
  /\ ret.value = 60

\* ----------------------------- the scheduler service under parallel requests
\* the request threads of the threaded Flask server
RequestThreads == { "request-1", "request-2" }

\* country_metrics with the metrics of one country replaced (or added)
WithMetrics(country, m) ==
  [c \in DOMAIN country_metrics \cup { country } |->
     IF c = country THEN m ELSE country_metrics[c]]

\* thread t moves to label l
Goto(t, l) == pc' = [pc EXCEPT ![t] = l]

\* POST /metrics/update reaches scheduler.update_metrics(country,
\* posts_fetched, error) on thread t
metrics_update(t, country, result) ==
  /\ pc[t] = "idle"
  /\ frame' = [frame EXCEPT ![t] = [country |-> country, result |-> result,
                                    tmp |-> << >>]]
  /\ Goto(t, "last_fetch")
  /\ UNCHANGED << scheduler_vars, now, ret, calls, call_limit, outcomes,
                  ml_vars, cache_vars, observations, rotation, limiter, channel >>

\* metrics = self.country_metrics[country]; metrics['last_fetch'] = now
um_last_fetch(t) ==
  LET country == frame[t].country
      result == frame[t].result
  IN  /\ pc[t] = "last_fetch"
      /\ country_metrics' =
           WithMetrics(country, [Metrics(country) EXCEPT !.last_fetch = << now >>])
      /\ Goto(t, IF result.error THEN "error_read_failures"
                 ELSE IF result.stored > 0 THEN "stored_reset_failures"
                 ELSE "empty_read_failures")
      /\ UNCHANGED << all_countries, priority_queue, current_interval,
                      raw_posts, now, ret, calls, call_limit, outcomes, frame,
                      ml_vars, cache_vars, observations, rotation, limiter, channel >>

\* metrics['consecutive_failures'] += 1, the read of the old value
um_read_failures(t) ==
  /\ pc[t] \in { "error_read_failures", "empty_read_failures" }
  /\ frame' = [frame EXCEPT ![t].tmp =
                 << country_metrics[frame[t].country].consecutive_failures >>]
  /\ Goto(t, IF frame[t].result.error THEN "error_write_failures"
             ELSE "empty_write_failures")
  /\ UNCHANGED << scheduler_vars, now, ret, calls, call_limit, outcomes,
                  ml_vars, cache_vars, observations, rotation, limiter, channel >>

\* metrics['consecutive_failures'] += 1, the store of the new value
um_write_failures(t) ==
  LET country == frame[t].country
  IN  /\ pc[t] \in { "error_write_failures", "empty_write_failures" }
      /\ country_metrics' =
           WithMetrics(country, [country_metrics[country] EXCEPT
                                   !.consecutive_failures = frame[t].tmp[1] + 1])
      /\ Goto(t, IF frame[t].result.error THEN "error_read_rate" ELSE "done")
      /\ UNCHANGED << all_countries, priority_queue, current_interval,
                      raw_posts, now, ret, calls, call_limit, outcomes, frame,
                      ml_vars, cache_vars, observations, rotation, limiter, channel >>

\* metrics['consecutive_failures'] = 0
um_reset_failures(t) ==
  LET country == frame[t].country
  IN  /\ pc[t] = "stored_reset_failures"
      /\ country_metrics' =
           WithMetrics(country, [country_metrics[country] EXCEPT
                                   !.consecutive_failures = 0])
      /\ Goto(t, "stored_read_rate")
      /\ UNCHANGED << all_countries, priority_queue, current_interval,
                      raw_posts, now, ret, calls, call_limit, outcomes, frame,
                      ml_vars, cache_vars, observations, rotation, limiter, channel >>

\* the read of metrics['success_rate'] in `*= 0.9` and in min(... * 1.1, 1.0)
um_read_rate(t) ==
  /\ pc[t] \in { "error_read_rate", "stored_read_rate" }
  /\ frame' = [frame EXCEPT ![t].tmp =
                 country_metrics[frame[t].country].success_rate]
  /\ Goto(t, IF frame[t].result.error THEN "error_write_rate"
             ELSE "stored_write_rate")
  /\ UNCHANGED << scheduler_vars, now, ret, calls, call_limit, outcomes,
                  ml_vars, cache_vars, observations, rotation, limiter, channel >>

\* the store of metrics['success_rate']
um_write_rate(t) ==
  LET country == frame[t].country
      error == frame[t].result.error
  IN  /\ pc[t] \in { "error_write_rate", "stored_write_rate" }
      /\ country_metrics' =
           WithMetrics(country, [country_metrics[country] EXCEPT
             !.success_rate =
               IF error THEN RatMul(frame[t].tmp, Rat(9, 10))
               ELSE RatMin(RatMul(frame[t].tmp, Rat(11, 10)), R(1))])
      /\ Goto(t, IF error THEN "done" ELSE "stored_post_rate")
      /\ UNCHANGED << all_countries, priority_queue, current_interval,
                      raw_posts, now, ret, calls, call_limit, outcomes, frame,
                      ml_vars, cache_vars, observations, rotation, limiter, channel >>

\* if metrics['last_fetch']: hours = ...; if hours > 0: post_rate = ...
um_post_rate(t) ==
  LET country == frame[t].country
      m == country_metrics[country]
  IN  /\ pc[t] = "stored_post_rate"
      /\ \E d \in CallDelays :
           LET hours == HoursBetween(now + d, m.last_fetch[1])
           IN  /\ now' = now + d
               /\ country_metrics' =
                    IF m.last_fetch # << >> /\ RatLess(R(0), hours)
                      THEN WithMetrics(country, [m EXCEPT !.post_rate =
                             RatDiv(R(frame[t].result.stored), hours)])
                      ELSE country_metrics
      /\ Goto(t, "done")
      /\ UNCHANGED << all_countries, priority_queue, current_interval,
                      raw_posts, ret, calls, call_limit, outcomes, frame,
                      ml_vars, cache_vars, observations, rotation, limiter, channel >>

\* GET /priorities on another thread: the metrics and the score it reports
\* for a country
priorities(country) ==
  /\ calls < call_limit
  /\ calls' = calls + 1
  /\ country \in DOMAIN country_metrics
  /\ ret' = [op |-> "priorities", country |-> country,
             metrics |-> country_metrics[country],
             score |-> calculate_priority_score(country)]
  /\ UNCHANGED << scheduler_vars, now, call_limit, outcomes, thread_vars,
                  ml_vars, cache_vars, observations, rotation, limiter, channel >>

\* the scheduler service with its request threads waiting
ServiceInit ==
  /\ SchedulerInit({ SubSeq(ALL_COUNTRIES, 15, 15), SubSeq(ALL_COUNTRIES, 1, 6) })
  /\ pc = [t \in RequestThreads |-> "idle"]
  /\ frame = [t \in RequestThreads |-> << >>]
  /\ ModelsInit
  /\ CacheInit
  /\ observations = << >>
  /\ rotation = NoRotation
  /\ limiter = NoLimiter
  /\ channel = NoChannel
  /\ now = 0
  /\ ret = NoRet
  /\ calls = 0
  /\ call_limit = MaxCalls

ServiceNext ==
  \/ \E t \in RequestThreads, c \in Targets, r \in FetchResults :
       metrics_update(t, c, r)
  \/ \E t \in RequestThreads : um_last_fetch(t)
  \/ \E t \in RequestThreads : um_read_failures(t)
  \/ \E t \in RequestThreads : um_write_failures(t)
  \/ \E t \in RequestThreads : um_reset_failures(t)
  \/ \E t \in RequestThreads : um_read_rate(t)
  \/ \E t \in RequestThreads : um_write_rate(t)
  \/ \E t \in RequestThreads : um_post_rate(t)
  \/ \E c \in Targets : priorities(c)

SpecService == ServiceInit /\ [][ServiceNext]_vars

\* the outcomes recorded for a country, oldest first
OutcomesOf(c) == SelectSeq(outcomes, LAMBDA o : o.country = c)

C12_ImportanceFrozen ==
  [][ /\ \A c \in DOMAIN country_metrics :
           /\ c \in DOMAIN country_metrics'
           /\ country_metrics'[c].importance = country_metrics[c].importance
      /\ ret'.op = "update_metrics" =>
           \A c \in DOMAIN country_metrics \ { ret'.country } :
             country_metrics'[c] = country_metrics[c] ]_vars

\* an outcome recorded for one country while another country's metrics had
\* already moved, with the importances of construction still in place
C12_Witness ==
  /\ ret.op = "update_metrics"
  /\ \E c \in DOMAIN country_metrics \ { ret.country } :
       country_metrics[c].consecutive_failures > 0
  /\ \A c \in Tracked : country_metrics[c].importance = InitialImportance(c)

\* the metrics a country is constructed with
Constructed(c) ==
  IF c \in Tracked
    THEN [DefaultMetrics EXCEPT !.importance = InitialImportance(c)]
    ELSE DefaultMetrics

\* the two metrics that outcomes accumulate
Accumulated(m) == << m.consecutive_failures, m.success_rate >>

\* what the whole updates of the threads ts leave of metrics m, applied one
\* after another in every order; with the states in between when between
RECURSIVE Serial(_, _, _)
Serial(m, ts, between) ==
  (IF ts = { } \/ between THEN { Accumulated(m) } ELSE { }) \cup
  UNION { Serial(UpdatedMetrics(m, frame[t].result, now, now), ts \ { t },
                 between) : t \in ts }

\* the request threads that are updating, or have updated, country c
UpdatersOf(c) ==
  { t \in RequestThreads : pc[t] # "idle" /\ frame[t].country = c }

\* C13: once parallel /metrics/update requests have all returned, the
\* consecutive_failures and success_rate of every country are those that some
\* one-after-another order of the updates leaves, and what a parallel
\* /priorities request reads of a country is what some of the updates,
\* wholly applied one after another, leave.
C13_UpdatesSerialize ==
  /\ (\A t \in DOMAIN pc : pc[t] = "done") =>
       \A c \in DOMAIN country_metrics :
         Accumulated(country_metrics[c]) \in
           Serial(Constructed(c), UpdatersOf(c), FALSE)
  /\ ret.op = "priorities" =>
       Accumulated(ret.metrics) \in
         Serial(Constructed(ret.country), UpdatersOf(ret.country), TRUE)

\* ------------------------------------- the models of the ML analyzer service
MODEL_IDLE_TIMEOUT == 600

\* the order in which load_models fills the global models
LoadOrder == << "roberta", "bart", "ner", "vader" >>

\* what pipeline(...) and SentimentIntensityAnalyzer() return
Pipeline == "pipeline"

\* the thread that handles messages
Workers == { "consumer" }

\* the thread of idle_checker_thread
IdleChecker == "idle_checker"

\* the models the analyses of a post use: analyze_emotion_roberta uses
\* models['roberta'], classify_collective uses models['bart']
AnalysisModels == { "roberta", "bart" }

\* seconds by which the clock advances between the steps of the threads
IdleSteps == { MODEL_IDLE_TIMEOUT \div 2, MODEL_IDLE_TIMEOUT \div 2 + 1 }

\* the locals of a worker before its first analysis
NoAnalysis == [key |-> None, step |-> 0, invoked |-> << >>, outcome |-> None]

\* a worker enters analyze_emotion_roberta or classify_collective
analyze(t, key) ==
  /\ pc[t] = "idle"
  /\ frame' = [frame EXCEPT ![t].key = key, ![t].outcome = None]
  /\ Goto(t, "check")
  /\ UNCHANGED << scheduler_vars, now, ret, calls, call_limit, outcomes,
                  ml_vars, cache_vars, observations, rotation, limiter, channel >>

\* if not models[key]: load_models()
am_check(t) ==
  /\ pc[t] = "check"
  /\ Goto(t, IF models[frame[t].key] = None THEN "load_models" ELSE "invoke")
  /\ UNCHANGED << scheduler_vars, now, ret, calls, call_limit, outcomes,
                  frame, ml_vars, cache_vars, observations, rotation, limiter, channel >>

\* load_models: if models_loaded: last_model_use_time = time.time(); return
lm_entry(t) ==
  /\ pc[t] = "load_models"
  /\ IF models_loaded
       THEN /\ last_model_use_time' = now
            /\ Goto(t, "invoke")
            /\ UNCHANGED frame
       ELSE /\ frame' = [frame EXCEPT ![t].step = 1]
            /\ Goto(t, "loading")
            /\ UNCHANGED last_model_use_time
  /\ UNCHANGED << scheduler_vars, now, ret, calls, call_limit, outcomes,
                  models, models_loaded, cache_vars, observations, rotation, limiter, channel >>

\* load_models: one of models[name] = pipeline(...), which may raise; the
\* except clause logs and raises again
lm_load(t) ==
  LET step == frame[t].step
  IN  /\ pc[t] = "loading"
      /\ \/ /\ models' = [models EXCEPT ![LoadOrder[step]] = Pipeline]
            /\ frame' = [frame EXCEPT ![t].step = step + 1]
            /\ Goto(t, IF step = Len(LoadOrder) THEN "loaded" ELSE "loading")
            /\ UNCHANGED ret
         \/ /\ Goto(t, "load_failed")
            /\ ret' = [op |-> "load_models", raised |-> TRUE, at |-> now]
            /\ UNCHANGED << models, frame >>
      /\ UNCHANGED << scheduler_vars, now, calls, call_limit, outcomes,
                      models_loaded, last_model_use_time, cache_vars,
                      observations, rotation, limiter, channel >>

\* load_models: models_loaded = True; last_model_use_time = time.time()
lm_loaded(t) ==
  /\ pc[t] = "loaded"
  /\ models_loaded' = TRUE
  /\ last_model_use_time' = now
  /\ ret' = [op |-> "load_models", raised |-> FALSE, at |-> now]
  /\ Goto(t, "invoke")
  /\ UNCHANGED << scheduler_vars, now, calls, call_limit, outcomes, frame,
                  models, cache_vars, observations, rotation, limiter, channel >>

\* the except clause of the analysis: the default result
am_failed(t) ==
  /\ pc[t] = "load_failed"
  /\ frame' = [frame EXCEPT ![t].outcome = "default"]
  /\ Goto(t, "idle")
  /\ UNCHANGED << scheduler_vars, now, ret, calls, call_limit, outcomes,
                  ml_vars, cache_vars, observations, rotation, limiter, channel >>

\* results = models[key](text): calling None raises TypeError, which the
\* except clause turns into the default result
am_invoke(t) ==
  LET handle == models[frame[t].key]
  IN  /\ pc[t] = "invoke"
      /\ frame' = [frame EXCEPT
           ![t].invoked = << [handle |-> handle, loaded |-> models_loaded,
                              at |-> now] >>,
           ![t].outcome = IF handle = None THEN "default" ELSE "result"]
      /\ Goto(t, "idle")
      /\ UNCHANGED << scheduler_vars, now, ret, calls, call_limit, outcomes,
                      ml_vars, cache_vars, observations, rotation, limiter, channel >>

\* the times of the inference calls issued so far
InferenceTimes ==
  { frame[t].invoked[1].at :
      t \in { w \in DOMAIN pc \cap Workers : frame[w].invoked # << >> } }

\* an idle test that already fires at the timeout itself
IsIdle_AtTimeout(idle_time) == idle_time >= MODEL_IDLE_TIMEOUT

\* unload_models_if_idle: if idle_time > MODEL_IDLE_TIMEOUT
IsIdle(idle_time) == idle_time > MODEL_IDLE_TIMEOUT

\* unload_models_if_idle, woken every minute: the two tests
ic_check(t) ==
  LET idle_time == now - last_model_use_time
      unloading == models_loaded /\ IsIdle(idle_time)
  IN  /\ pc[t] = "sleeping"
      /\ calls < call_limit
      /\ calls' = calls + 1
      /\ ret' = [op |-> "unload_models_if_idle", at |-> now,
                 unloading |-> unloading, inferences |-> InferenceTimes]
      /\ Goto(t, IF unloading THEN "unload_models" ELSE "sleeping")
      /\ UNCHANGED << scheduler_vars, now, call_limit, outcomes, frame,
                      ml_vars, cache_vars, observations, rotation, limiter, channel >>

\* unload_models_if_idle: models = {key: None for key in models}
ic_unload_models(t) ==
  /\ pc[t] = "unload_models"
  /\ models' = [k \in DOMAIN models |-> None]
  /\ Goto(t, "unload_flag")
  /\ UNCHANGED << scheduler_vars, now, ret, calls, call_limit, outcomes,
                  frame, models_loaded, last_model_use_time, cache_vars,
                  observations, rotation, limiter, channel >>

\* an unload whose assignment to models_loaded stays local to the function
ic_unload_flag_Local(t) ==
  /\ pc[t] = "unload_flag"
  /\ Goto(t, "sleeping")
  /\ UNCHANGED << scheduler_vars, now, ret, calls, call_limit, outcomes,
                  frame, ml_vars, cache_vars, observations, rotation, limiter, channel >>

\* unload_models_if_idle: models_loaded = False
ic_unload_flag(t) ==
  /\ pc[t] = "unload_flag"
  /\ models_loaded' = FALSE
  /\ Goto(t, "sleeping")
  /\ UNCHANGED << scheduler_vars, now, ret, calls, call_limit, outcomes,
                  frame, models, last_model_use_time, cache_vars,
                  observations, rotation, limiter, channel >>

\* the ML analyzer service once its threads are started
AnalyzerInit ==
  /\ SchedulerInit({ << >> })
  /\ pc = [t \in Workers \cup { IdleChecker } |->
             IF t = IdleChecker THEN "sleeping" ELSE "idle"]
  /\ frame = [t \in Workers \cup { IdleChecker } |-> NoAnalysis]
  /\ ModelsInit
  /\ CacheInit
  /\ observations = << >>
  /\ rotation = NoRotation
  /\ limiter = NoLimiter
  /\ channel = NoChannel
  /\ now = 0
  /\ ret = NoRet
  /\ calls = 0
  /\ call_limit = MaxCalls

AnalyzerNext ==
  \/ \E t \in Workers, key \in AnalysisModels : analyze(t, key)
  \/ \E t \in Workers : am_check(t)
  \/ \E t \in Workers : lm_entry(t)
  \/ \E t \in Workers : lm_load(t)
  \/ \E t \in Workers : lm_loaded(t)
  \/ \E t \in Workers : am_failed(t)
  \/ \E t \in Workers : am_invoke(t)
  \/ ic_check(IdleChecker)
  \/ ic_unload_models(IdleChecker)
  \/ ic_unload_flag(IdleChecker)
  \/ \E d \in IdleSteps : tick(d)

SpecAnalyzer == AnalyzerInit /\ [][AnalyzerNext]_vars

\* C14: in every interleaving of the idle checker with a worker, the model
\* handle that an inference call of the worker uses is not None: the models
\* are not unloaded between the worker's test and its call.
C14_InferenceOnLoadedModel ==
  \A t \in DOMAIN pc \cap Workers :
    frame[t].invoked # << >> => frame[t].invoked[1].handle # None

\* C15: when the idle checker decides to unload, at least MODEL_IDLE_TIMEOUT
\* seconds have passed since the most recent inference call.
C15_UnloadOnlyAfterIdle ==
  ret.op = "unload_models_if_idle" /\ ret.unloading =>
    \A at \in ret.inferences : ret.at - at >= MODEL_IDLE_TIMEOUT

\* C16: when load_models has raised, models_loaded is false and no model is
\* left in place that an analysis would use without loading.
C16_FailedLoadLeavesNothing ==
  \A t \in DOMAIN pc \cap Workers :
    pc[t] = "load_failed" =>
      /\ ~models_loaded
      /\ \A k \in DOMAIN models : models[k] = None

\* --------------------------------------------------------- the result cache
\* A str is the sequence of its pieces between colons and of its colons:
\* "a:b" is << "a", ":", "b" >>.
Colon == ":"

\* SmartCacheManager.cache_ttl
cache_ttl ==
  [t \in { << "emotions" >>, << "country_emotion" >>, << "country_stats" >>,
           << "global_stats" >>, << "country_posts" >> } |->
     CASE t = << "emotions" >> -> 30
       [] t = << "country_emotion" >> -> 120
       [] t = << "country_stats" >> -> 60
       [] t = << "global_stats" >> -> 30
       [] OTHER -> 180]

\* the ttl of a cache type that cache_ttl does not list
default_ttl == 60

\* f"{cache_type}:{key}"
CacheKey(cache_type, key) == cache_type \o << Colon >> \o key

\* the length of the part of a str before its first colon
RECURSIVE BeforeColon(_, _)
BeforeColon(str, i) ==
  IF i > Len(str) \/ str[i] = Colon THEN i - 1 ELSE BeforeColon(str, i + 1)

\* cache_key.split(':')[0]
SplitFirst(cache_key) == SubSeq(cache_key, 1, BeforeColon(cache_key, 1))

\* self.cache_ttl.get(cache_type, 60)
TtlOf(cache_type) ==
  IF cache_type \in DOMAIN cache_ttl THEN cache_ttl[cache_type] ELSE default_ttl

\* a dict without one of its keys
Without(dict, k) == [x \in DOMAIN dict \ { k } |-> dict[x]]

\* a dict with one key set
With(dict, k, v) == [x \in DOMAIN dict \cup { k } |-> IF x = k THEN v ELSE dict[x]]

\* the cache types, keys and values of the callers
CacheTypes == { << "emotions" >>, << "country_details" >> }

CacheKeys == { << "all" >> }

CacheValues == { "v1", "v2" }

\* seconds by which the clock advances between cache calls
CacheSteps == { 30, 31 }

\* every cached value is served forever
Expired_Never(age, ttl) == FALSE

\* the expiry test of get and clear_expired
Expired(age, ttl) == age > ttl

\* SmartCacheManager.get(cache_type, key); None is a miss
cache_get(cache_type, key) ==
  LET cache_key == CacheKey(cache_type, key)
      held == cache_key \in DOMAIN cache
      age == now - cache_times[cache_key]
      ttl == TtlOf(cache_type)
  IN  /\ calls < call_limit
      /\ calls' = calls + 1
      /\ IF ~held
           THEN /\ ret' = [op |-> "get", cache_type |-> cache_type,
                           key |-> key, value |-> None, at |-> now]
                /\ UNCHANGED << cache, cache_times >>
         ELSE IF Expired(age, ttl)
           THEN /\ cache' = Without(cache, cache_key)
                /\ cache_times' = Without(cache_times, cache_key)
                /\ ret' = [op |-> "get", cache_type |-> cache_type,
                           key |-> key, value |-> None, at |-> now]
         ELSE /\ ret' = [op |-> "get", cache_type |-> cache_type,
                         key |-> key, value |-> cache[cache_key], at |-> now]
              /\ UNCHANGED << cache, cache_times >>
      /\ UNCHANGED << scheduler_vars, now, call_limit, outcomes, thread_vars,
                      ml_vars, cache_log, observations, rotation, limiter, channel >>

\* a set that keeps the time of the entry it overwrites
SetTime_KeepsOld(cache_key, t) ==
  IF cache_key \in DOMAIN cache_times THEN cache_times[cache_key] ELSE t

\* the time that set stores for an entry
SetTime(cache_key, t) == t

\* SmartCacheManager.set(cache_type, key, value)
cache_set(cache_type, key, value) ==
  LET cache_key == CacheKey(cache_type, key)
  IN  /\ calls < call_limit
      /\ calls' = calls + 1
      /\ cache' = With(cache, cache_key, value)
      /\ cache_times' = With(cache_times, cache_key, SetTime(cache_key, now))
      /\ cache_log' = With(cache_log, cache_key, [value |-> value, at |-> now])
      /\ ret' = [op |-> "set", cache_type |-> cache_type, key |-> key,
                 value |-> value, at |-> now]
      /\ UNCHANGED << scheduler_vars, now, call_limit, outcomes, thread_vars,
                      ml_vars, observations, rotation, limiter, channel >>

\* the keys clear_expired collects at time t
ExpiredKeys(t) ==
  { cache_key \in DOMAIN cache_times :
      Expired(t - cache_times[cache_key], TtlOf(SplitFirst(cache_key))) }

\* SmartCacheManager.clear_expired()
clear_expired ==
  LET expired_keys == ExpiredKeys(now)
  IN  /\ calls < call_limit
      /\ calls' = calls + 1
      /\ cache' = [k \in DOMAIN cache \ expired_keys |-> cache[k]]
      /\ cache_times' = [k \in DOMAIN cache_times \ expired_keys |-> cache_times[k]]
      /\ ret' = [op |-> "clear_expired", expired_keys |-> expired_keys,
                 at |-> now]
      /\ UNCHANGED << scheduler_vars, now, call_limit, outcomes, thread_vars,
                      ml_vars, cache_log, observations, rotation, limiter, channel >>

\* the cache manager of the monolith, called from one thread
CacheCallsInit ==
  /\ SchedulerInit({ << >> })
  /\ NoThreads
  /\ ModelsInit
  /\ CacheInit
  /\ observations = << >>
  /\ rotation = NoRotation
  /\ limiter = NoLimiter
  /\ channel = NoChannel
  /\ now = 0
  /\ ret = NoRet
  /\ calls = 0
  /\ call_limit = MaxCacheCalls

CacheCallsNext ==
  \/ \E t \in CacheTypes, k \in CacheKeys : cache_get(t, k)
  \/ \E t \in CacheTypes, k \in CacheKeys, v \in CacheValues : cache_set(t, k, v)
  \/ clear_expired
  \/ \E d \in CacheSteps : tick(d)

SpecCache == CacheCallsInit /\ [][CacheCallsNext]_vars

\* C17: a get that returns a value returns the value of an entry that was set
\* at most ttl(cache_type) seconds before, and a get that reports a miss
\* leaves no entry for the key.
C17_NoStaleValue ==
  ret.op = "get" =>
    LET cache_key == CacheKey(ret.cache_type, ret.key)
    IN  IF ret.value # None
          THEN /\ cache_key \in DOMAIN cache_log
               /\ ret.value = cache_log[cache_key].value
               /\ ret.at - cache_log[cache_key].at <= TtlOf(ret.cache_type)
          ELSE /\ cache_key \notin DOMAIN cache
               /\ cache_key \notin DOMAIN cache_times

\* a get that found its entry too old, reported a miss and removed it
C17_Witness ==
  /\ ret.op = "get"
  /\ ret.value = None
  /\ CacheKey(ret.cache_type, ret.key) \in DOMAIN cache_log
  /\ ret.at - cache_log[CacheKey(ret.cache_type, ret.key)].at
       = TtlOf(ret.cache_type) + 1
  /\ \E k \in DOMAIN cache : k # CacheKey(ret.cache_type, ret.key)

Maintenance == "maintenance"

\* thread t returns from its call
Return(t, record) ==
  /\ frame' = [frame EXCEPT ![t] = record]
  /\ ret' = record
  /\ Goto(t, "idle")

\* thread t enters SmartCacheManager.get(cache_type, key)
get_entry(t, cache_type, key) ==
  /\ pc[t] = "idle"
  /\ calls < call_limit
  /\ calls' = calls + 1
  /\ frame' = [frame EXCEPT ![t] =
                 [op |-> "get", cache_type |-> cache_type, key |-> key,
                  cache_key |-> CacheKey(cache_type, key), raised |-> None,
                  value |-> None, latest |-> << >>, at |-> now]]
  /\ Goto(t, "get_contains")
  /\ UNCHANGED << scheduler_vars, now, ret, call_limit, outcomes, ml_vars,
                  cache_vars, observations, rotation, limiter, channel >>

\* if cache_key not in self.cache: return None
get_contains(t) ==
  /\ pc[t] = "get_contains"
  /\ IF frame[t].cache_key \in DOMAIN cache
       THEN /\ Goto(t, "get_age")
            /\ UNCHANGED << frame, ret >>
       ELSE Return(t, frame[t])
  /\ UNCHANGED << scheduler_vars, now, calls, call_limit, outcomes, ml_vars,
                  cache_vars, observations, rotation, limiter, channel >>

\* age = time.time() - self.cache_times[cache_key]; if age > ttl
get_age(t) ==
  LET cache_key == frame[t].cache_key
  IN  /\ pc[t] = "get_age"
      /\ IF cache_key \notin DOMAIN cache_times
           THEN Return(t, [frame[t] EXCEPT !.raised = "KeyError", !.at = now])
           ELSE /\ frame' = [frame EXCEPT ![t].at = now]
                /\ Goto(t, IF Expired(now - cache_times[cache_key],
                                       TtlOf(frame[t].cache_type))
                              THEN "get_del_cache"
                              ELSE "get_return")
                /\ UNCHANGED ret
      /\ UNCHANGED << scheduler_vars, now, calls, call_limit, outcomes,
                      ml_vars, cache_vars, observations, rotation, limiter, channel >>

\* del self.cache[cache_key]
get_del_cache(t) ==
  LET cache_key == frame[t].cache_key
  IN  /\ pc[t] = "get_del_cache"
      /\ IF cache_key \notin DOMAIN cache
           THEN /\ Return(t, [frame[t] EXCEPT !.raised = "KeyError"])
                /\ UNCHANGED cache
           ELSE /\ cache' = Without(cache, cache_key)
                /\ Goto(t, "get_del_time")
                /\ UNCHANGED << frame, ret >>
      /\ UNCHANGED << scheduler_vars, now, calls, call_limit, outcomes,
                      ml_vars, cache_times, cache_log, observations, rotation, limiter, channel >>

\* del self.cache_times[cache_key]; return None
get_del_time(t) ==
  LET cache_key == frame[t].cache_key
  IN  /\ pc[t] = "get_del_time"
      /\ IF cache_key \notin DOMAIN cache_times
           THEN /\ Return(t, [frame[t] EXCEPT !.raised = "KeyError"])
                /\ UNCHANGED cache_times
           ELSE /\ cache_times' = Without(cache_times, cache_key)
                /\ Return(t, frame[t])
      /\ UNCHANGED << scheduler_vars, now, calls, call_limit, outcomes,
                      ml_vars, cache, cache_log, observations, rotation, limiter, channel >>

\* return self.cache[cache_key]
get_return(t) ==
  LET cache_key == frame[t].cache_key
  IN  /\ pc[t] = "get_return"
      /\ IF cache_key \notin DOMAIN cache
           THEN Return(t, [frame[t] EXCEPT !.raised = "KeyError"])
           ELSE Return(t, [frame[t] EXCEPT !.value = cache[cache_key],
                                            !.latest = cache_log[cache_key]])
      /\ UNCHANGED << scheduler_vars, now, calls, call_limit, outcomes,
                      ml_vars, cache_vars, observations, rotation, limiter, channel >>

\* thread t enters SmartCacheManager.set(cache_type, key, value):
\* self.cache[cache_key] = value
set_value(t, cache_type, key, value) ==
  LET cache_key == CacheKey(cache_type, key)
  IN  /\ pc[t] = "idle"
      /\ calls < call_limit
      /\ calls' = calls + 1
      /\ frame' = [frame EXCEPT ![t] =
                     [op |-> "set", cache_type |-> cache_type, key |-> key,
                      cache_key |-> cache_key, raised |-> None,
                      value |-> value, at |-> now]]
      /\ cache' = With(cache, cache_key, value)
      /\ cache_log' = With(cache_log, cache_key, [value |-> value, at |-> now])
      /\ Goto(t, "set_time")
      /\ UNCHANGED << scheduler_vars, now, ret, call_limit, outcomes, ml_vars,
                      cache_times, observations, rotation, limiter, channel >>

\* self.cache_times[cache_key] = time.time()
set_time(t) ==
  /\ pc[t] = "set_time"
  /\ cache_times' = With(cache_times, frame[t].cache_key,
                         SetTime(frame[t].cache_key, now))
  /\ cache_log' = [cache_log EXCEPT ![frame[t].cache_key].at = now]
  /\ Return(t, [frame[t] EXCEPT !.at = now])
  /\ UNCHANGED << scheduler_vars, now, calls, call_limit, outcomes, ml_vars,
                  cache, observations, rotation, limiter, channel >>

\* the maintenance thread enters clear_expired: now = time.time(), and the
\* loop over self.cache_times.items() starts (over an empty dict it ends at
\* once)
ce_entry(t) ==
  /\ pc[t] = "idle"
  /\ calls < call_limit
  /\ calls' = calls + 1
  /\ IF DOMAIN cache_times = { }
       THEN Return(t, [op |-> "clear_expired", raised |-> None, at |-> now,
                       size |-> 0, expired_keys |-> { }, key |-> << >>])
       ELSE /\ frame' = [frame EXCEPT ![t] =
                 [op |-> "clear_expired", raised |-> None, at |-> now,
                  size |-> Cardinality(DOMAIN cache_times),
                  expired_keys |-> { }, key |-> << >>]]
            /\ Goto(t, "ce_scan")
            /\ UNCHANGED ret
  /\ UNCHANGED << scheduler_vars, now, call_limit, outcomes, ml_vars,
                  cache_vars, observations, rotation, limiter, channel >>

\* the loop over self.cache_times.items() ends: a dict whose size has
\* changed since the loop started raises RuntimeError
ce_scan(t) ==
  LET expired_keys == ExpiredKeys(frame[t].at)
  IN  /\ pc[t] = "ce_scan"
      /\ IF Cardinality(DOMAIN cache_times) # frame[t].size
           THEN Return(t, [frame[t] EXCEPT !.raised = "RuntimeError"])
         ELSE IF expired_keys = { }
           THEN Return(t, frame[t])
         ELSE /\ frame' = [frame EXCEPT ![t].expired_keys = expired_keys]
              /\ Goto(t, "ce_del_cache")
              /\ UNCHANGED ret
      /\ UNCHANGED << scheduler_vars, now, calls, call_limit, outcomes,
                      ml_vars, cache_vars, observations, rotation, limiter, channel >>

\* for key in expired_keys: del self.cache[key]
ce_del_cache(t) ==
  /\ pc[t] = "ce_del_cache"
  /\ \E key \in frame[t].expired_keys :
       IF key \notin DOMAIN cache
         THEN /\ Return(t, [frame[t] EXCEPT !.raised = "KeyError", !.key = key])
              /\ UNCHANGED cache
         ELSE /\ cache' = Without(cache, key)
              /\ frame' = [frame EXCEPT ![t].key = key]
              /\ Goto(t, "ce_del_time")
              /\ UNCHANGED ret
  /\ UNCHANGED << scheduler_vars, now, calls, call_limit, outcomes, ml_vars,
                  cache_times, cache_log, observations, rotation, limiter, channel >>

\* del self.cache_times[key], and on to the next key
ce_del_time(t) ==
  LET key == frame[t].key
      left == frame[t].expired_keys \ { key }
  IN  /\ pc[t] = "ce_del_time"
      /\ IF key \notin DOMAIN cache_times
           THEN /\ Return(t, [frame[t] EXCEPT !.raised = "KeyError"])
                /\ UNCHANGED cache_times
         ELSE IF left = { }
           THEN /\ cache_times' = Without(cache_times, key)
                /\ Return(t, [frame[t] EXCEPT !.expired_keys = left])
         ELSE /\ cache_times' = Without(cache_times, key)
              /\ frame' = [frame EXCEPT ![t].expired_keys = left]
              /\ Goto(t, "ce_del_cache")
              /\ UNCHANGED ret
      /\ UNCHANGED << scheduler_vars, now, calls, call_limit, outcomes,
                      ml_vars, cache, cache_log, observations, rotation, limiter, channel >>

\* the cache manager of the monolith, called from two request threads and
\* from the maintenance thread
CacheThreadsInit ==
  /\ SchedulerInit({ << >> })
  /\ pc = [t \in RequestThreads \cup { Maintenance } |-> "idle"]
  /\ frame = [t \in RequestThreads \cup { Maintenance } |-> [raised |-> None]]
  /\ ModelsInit
  /\ CacheInit
  /\ observations = << >>
  /\ rotation = NoRotation
  /\ limiter = NoLimiter
  /\ channel = NoChannel
  /\ now = 0
  /\ ret = NoRet
  /\ calls = 0
  /\ call_limit = MaxCalls

CacheThreadsNext ==
  \/ \E t \in RequestThreads, c \in CacheTypes, k \in CacheKeys :
       get_entry(t, c, k)
  \/ \E t \in RequestThreads : get_contains(t)
  \/ \E t \in RequestThreads : get_age(t)
  \/ \E t \in RequestThreads : get_del_cache(t)
  \/ \E t \in RequestThreads : get_del_time(t)
  \/ \E t \in RequestThreads : get_return(t)
  \/ \E t \in RequestThreads, c \in CacheTypes, k \in CacheKeys,
        v \in CacheValues : set_value(t, c, k, v)
  \/ \E t \in RequestThreads : set_time(t)
  \/ ce_entry(Maintenance)
  \/ ce_scan(Maintenance)
  \/ ce_del_cache(Maintenance)
  \/ ce_del_time(Maintenance)
  \/ \E d \in CacheSteps : tick(d)

SpecCacheThreads == CacheThreadsInit /\ [][CacheThreadsNext]_vars

\* C19: with get, set and clear_expired called from different threads, no
\* call raises (a call that finds a value without its time, or a time without
\* its value, raises KeyError), and every get that returns a value returns
\* the value of the latest set of its key, found at an age of at most ttl.
C19_ConcurrentUseIsSafe ==
  /\ \A t \in DOMAIN pc : frame[t].raised = None
  /\ \A t \in DOMAIN pc :
       ( pc[t] = "idle" /\ "op" \in DOMAIN frame[t] /\ frame[t].op = "get"
         /\ frame[t].value # None ) =>
         /\ frame[t].value = frame[t].latest.value
         /\ frame[t].at - frame[t].latest.at <= TtlOf(frame[t].cache_type)

\* ------------------------------------------------ the emotion aggregator
\* CountryEmotionAggregator.emotion_intensity
emotion_intensity ==
  [e \in { "anger", "fear", "disgust", "sadness", "surprise", "joy", "neutral" } |->
     CASE e = "anger" -> Rat(95, 100)
       [] e = "fear" -> Rat(90, 100)
       [] e = "disgust" -> Rat(85, 100)
       [] e = "sadness" -> Rat(70, 100)
       [] e = "surprise" -> Rat(60, 100)
       [] e = "joy" -> Rat(80, 100)
       [] OTHER -> Rat(30, 100)]

\* self.emotion_intensity.get(emotion, 0.5)
IntensityOf(emotion) ==
  IF emotion \in DOMAIN emotion_intensity
    THEN emotion_intensity[emotion]
    ELSE Rat(1, 2)

\* the keys of a dict filled from a list, in the order of insertion
RECURSIVE KeysInOrder(_)
KeysInOrder(seq) ==
  IF seq = << >> THEN << >>
  ELSE LET front == KeysInOrder(SubSeq(seq, 1, Len(seq) - 1))
           last == seq[Len(seq)]
       IN  IF \E i \in 1..Len(front) : front[i] = last
             THEN front
             ELSE Append(front, last)

\* a list with its items computed
Listed(seq) == SubSeq(seq, 1, Len(seq))

\* the position of the last of the largest values
FirstMax_TakesLast(values) ==
  CHOOSE i \in 1..Len(values) :
    \A j \in 1..Len(values) :
      /\ j > i => RatLess(values[j], values[i])
      /\ j < i => RatLeq(values[j], values[i])

\* max(d.items(), key=lambda x: x[1]) and Counter.most_common(1)[0]: the
\* position, among the values of a dict in the order of insertion, of the
\* first of the largest values
FirstMax(values) ==
  CHOOSE i \in 1..Len(values) :
    \A j \in 1..Len(values) :
      /\ j < i => RatLess(values[j], values[i])
      /\ j > i => RatLeq(values[j], values[i])

\* sum(list)
RECURSIVE RatSum(_)
RatSum(seq) ==
  IF seq = << >> THEN R(0)
  ELSE RatAdd(RatSum(SubSeq(seq, 1, Len(seq) - 1)), seq[Len(seq)])

\* np.mean(list)
Mean(seq) == RatDiv(RatSum(seq), R(Len(seq)))

\* sorted(list)
RECURSIVE Sorted(_)
Sorted(seq) ==
  IF Len(seq) <= 1 THEN seq
  ELSE LET front == Sorted(SubSeq(seq, 1, Len(seq) - 1))
           last == seq[Len(seq)]
           k == Cardinality({ i \in 1..Len(front) : RatLeq(front[i], last) })
       IN  SubSeq(front, 1, k) \o << last >> \o SubSeq(front, k + 1, Len(front))

\* np.median(list)
Median(seq) ==
  LET s == Sorted(seq)
      n == Len(s)
  IN  IF n % 2 = 1 THEN s[(n + 1) \div 2]
      ELSE RatDiv(RatAdd(s[n \div 2], s[n \div 2 + 1]), R(2))

\* 10 ** digits
RECURSIVE Pow10(_)
Pow10(digits) == IF digits = 0 THEN 1 ELSE 10 * Pow10(digits - 1)

\* round(x, digits) for x >= 0, halves to the even neighbour
Round(x, digits) ==
  LET scaled == RatMul(x, R(Pow10(digits)))
      q == scaled[1] \div scaled[2]
      r == scaled[1] % scaled[2]
      up == \/ 2 * r > scaled[2]
            \/ 2 * r = scaled[2] /\ q % 2 = 1
  IN  Rat(IF up THEN q + 1 ELSE q, Pow10(digits))

\* emotions = [p['emotion'] for p in posts]
EmotionsOf(posts) == Listed([i \in 1..Len(posts) |-> posts[i].emotion])

\* confidences = [p.get('confidence', 0.5) for p in posts]
ConfidencesOf(posts) == Listed([i \in 1..Len(posts) |-> posts[i].confidence])

\* a count that misses the first item of the list
CountOf_MissesFirst(seq, x) == Cardinality({ i \in 2..Len(seq) : seq[i] = x })

\* Counter(list)[x]
CountOf(seq, x) == Cardinality({ i \in 1..Len(seq) : seq[i] = x })

\* emotion_scores[emotion] of the weighted vote: the confidences of the posts
\* with that emotion, in the order of the posts
ConfidenceList(emotions, confidences, emotion) ==
  LET at == SelectSeq([i \in 1..Len(emotions) |-> i],
                      LAMBDA i : emotions[i] = emotion)
  IN  Listed([k \in 1..Len(at) |-> confidences[at[k]]])

\* emotion_scores[emotion] of the intensity votes: intensity * confidence
ScoreList(emotions, confidences, emotion) ==
  LET conf_list == ConfidenceList(emotions, confidences, emotion)
  IN  Listed([k \in 1..Len(conf_list) |->
                RatMul(IntensityOf(emotion), conf_list[k])])

\* CountryEmotionAggregator._majority_vote
majority_vote(emotions) ==
  LET keys == KeysInOrder(emotions)
      counter == Listed([i \in 1..Len(keys) |-> R(CountOf(emotions, keys[i]))])
      most_common == FirstMax(counter)
  IN  << keys[most_common], RatDiv(counter[most_common], R(Len(emotions))) >>

\* CountryEmotionAggregator._weighted_vote
weighted_vote(emotions, confidences) ==
  LET keys == KeysInOrder(emotions)
      weighted_emotions ==
        Listed([i \in 1..Len(keys) |->
                  LET conf_list == ConfidenceList(emotions, confidences, keys[i])
                  IN  RatMul(Mean(conf_list), Rat(Len(conf_list), Len(emotions)))])
      best_emotion == FirstMax(weighted_emotions)
  IN  << keys[best_emotion], weighted_emotions[best_emotion] >>

\* best / total if total > 0 else 0
Normalized(best, total) == IF RatLess(R(0), total) THEN RatDiv(best, total) ELSE R(0)

\* CountryEmotionAggregator._intensity_weighted_vote
intensity_weighted_vote(emotions, confidences) ==
  LET keys == KeysInOrder(emotions)
      total_scores ==
        Listed([i \in 1..Len(keys) |->
                  RatSum(ScoreList(emotions, confidences, keys[i]))])
      best_emotion == FirstMax(total_scores)
      total_intensity == RatSum(total_scores)
  IN  << keys[best_emotion], Normalized(total_scores[best_emotion], total_intensity) >>

\* CountryEmotionAggregator._intensity_median_vote
intensity_median_vote(emotions, confidences) ==
  LET keys == KeysInOrder(emotions)
      median_scores ==
        Listed([i \in 1..Len(keys) |->
                  Median(ScoreList(emotions, confidences, keys[i]))])
      best_emotion == FirstMax(median_scores)
      total_median == RatSum(median_scores)
  IN  << keys[best_emotion], Normalized(median_scores[best_emotion], total_median) >>

\* the algorithms, in the order in which their results enter the dict
Algorithms == << "majority", "weighted", "intensity", "intensity_median" >>

\* the winner of the majority vote, whatever the other algorithms elect
consensus_emotion_OfMajority(results) == results["majority"][1]

\* CountryEmotionAggregator._consensus_emotion
consensus_emotion(results) ==
  LET emotions_by_algo ==
        Listed([i \in 1..Len(Algorithms) |-> results[Algorithms[i]][1]])
      keys == KeysInOrder(emotions_by_algo)
      counter == Listed([i \in 1..Len(keys) |-> R(CountOf(emotions_by_algo, keys[i]))])
  IN  keys[FirstMax(counter)]

\* the average taken over the posts of the dominant emotion only
calculate_confidence_OwnMean(emotion, emotions, confidences) ==
  RatMin(RatAdd(RatMul(Rat(CountOf(emotions, emotion), Len(emotions)), Rat(6, 10)),
                RatMul(Mean(ConfidenceList(emotions, confidences, emotion)),
                       Rat(4, 10))),
         R(1))

\* agreement and average confidence added up without their weights
calculate_confidence_Unweighted(emotion, emotions, confidences) ==
  RatAdd(Rat(CountOf(emotions, emotion), Len(emotions)), Mean(confidences))

\* CountryEmotionAggregator._calculate_confidence
calculate_confidence(emotion, emotions, confidences) ==
  LET agreement == Rat(CountOf(emotions, emotion), Len(emotions))
      avg_confidence == Mean(confidences)
      confidence == RatAdd(RatMul(agreement, Rat(6, 10)),
                           RatMul(avg_confidence, Rat(4, 10)))
  IN  RatMin(confidence, R(1))

\* CountryEmotionAggregator._calculate_weighted_scores
calculate_weighted_scores(emotions, confidences) ==
  [e \in { emotions[i] : i \in 1..Len(emotions) } |->
     Mean(ScoreList(emotions, confidences, e))]

\* CountryEmotionAggregator.aggregate_country_emotions(posts)
AggregateCountryEmotions(posts) ==
  IF posts = << >>
    THEN [dominant_emotion |-> "neutral", confidence |-> R(0),
          distribution |-> << >>, weighted_scores |-> << >>,
          method |-> "empty", algorithm_votes |-> << >>, total_posts |-> 0]
    ELSE
      LET emotions == EmotionsOf(posts)
          confidences == ConfidencesOf(posts)
          results ==
            [majority |-> majority_vote(emotions),
             weighted |-> weighted_vote(emotions, confidences),
             intensity |-> intensity_weighted_vote(emotions, confidences),
             intensity_median |-> intensity_median_vote(emotions, confidences)]
          final_emotion == consensus_emotion(results)
          weighted_scores == calculate_weighted_scores(emotions, confidences)
      IN  [dominant_emotion |-> final_emotion,
           confidence |->
             Round(calculate_confidence(final_emotion, emotions, confidences), 2),
           distribution |->
             [e \in { emotions[i] : i \in 1..Len(emotions) } |-> CountOf(emotions, e)],
           weighted_scores |->
             [e \in DOMAIN weighted_scores |-> Round(weighted_scores[e], 3)],
           method |-> "ensemble_aggregation",
           algorithm_votes |-> results,
           total_posts |-> Len(posts)]

\* the emotions and confidences of the posts handed to the aggregator
PostEmotions == { "neutral", "anger", "joy" }

PostConfidences == { R(0), Rat(1, 10), Rat(1, 2), R(1) }

Posts == [emotion : PostEmotions, confidence : PostConfidences]

\* the lists of at most n posts
RECURSIVE PostLists(_)
PostLists(n) ==
  IF n = 0 THEN { << >> }
  ELSE LET shorter == PostLists(n - 1)
       IN  shorter \cup { Append(l, p) : l \in { x \in shorter : Len(x) = n - 1 },
                                        p \in Posts }

\* six posts of four emotions, two of them twice, at every confidence
SplitLists ==
  LET emotions == << "neutral", "neutral", "surprise", "anger", "anger", "fear" >>
      levels == { Rat(1, 10), Rat(1, 2), R(1) }
  IN  { [i \in 1..Len(emotions) |-> [emotion |-> emotions[i], confidence |-> c[i]]] :
          c \in [1..Len(emotions) -> levels] }

\* two confident posts of one emotion and a doubtful post of another
ExampleLists ==
  { << [emotion |-> "joy", confidence |-> Rat(9, 10)],
       [emotion |-> "joy", confidence |-> Rat(8, 10)],
       [emotion |-> "sadness", confidence |-> Rat(3, 10)] >> }

\* CountryEmotionAggregator.aggregate(posts) of the aggregation service
Aggregate(posts) ==
  IF posts = << >> THEN None
  ELSE
    LET emotions == EmotionsOf(posts)
        confidences == ConfidencesOf(posts)
        results ==
          [majority |-> majority_vote(emotions),
           weighted |-> weighted_vote(emotions, confidences),
           intensity |-> intensity_weighted_vote(emotions, confidences),
           intensity_median |-> intensity_median_vote(emotions, confidences)]
        final_emotion == consensus_emotion(results)
        weighted_scores == calculate_weighted_scores(emotions, confidences)
    IN  [dominant_emotion |-> final_emotion,
         confidence |->
           Round(calculate_confidence(final_emotion, emotions, confidences), 3),
         algorithm_votes |->
           [majority |-> results.majority[1], weighted |-> results.weighted[1],
            intensity |-> results.intensity[1],
            median |-> results.intensity_median[1]],
         post_count |-> Len(posts),
         emotion_distribution |->
           [e \in { emotions[i] : i \in 1..Len(emotions) } |-> CountOf(emotions, e)],
         weighted_scores |->
           [e \in DOMAIN weighted_scores |-> Round(weighted_scores[e], 3)],
         average_confidence |-> Round(Mean(confidences), 2)]

\* the aggregation service is called with the posts of one country
aggregate ==
  /\ calls < call_limit
  /\ calls' = calls + 1
  /\ ret' = [op |-> "aggregate", posts |-> observations,
             returned |-> IF observations = << >> THEN "None" ELSE "dict",
             result |-> Aggregate(observations)]
  /\ UNCHANGED << scheduler_vars, now, call_limit, outcomes, thread_vars,
                  ml_vars, cache_vars, observations, rotation, limiter, channel >>

\* the aggregator is called with the posts of one country
aggregate_country_emotions ==
  /\ calls < call_limit
  /\ calls' = calls + 1
  /\ ret' = [op |-> "aggregate_country_emotions", posts |-> observations,
             returned |-> "dict",
             result |-> AggregateCountryEmotions(observations)]
  /\ UNCHANGED << scheduler_vars, now, call_limit, outcomes, thread_vars,
                  ml_vars, cache_vars, observations, rotation, limiter, channel >>

AggregatorInit ==
  /\ SchedulerInit({ << >> })
  /\ NoThreads
  /\ ModelsInit
  /\ CacheInit
  /\ \A c \in DOMAIN raw_posts : raw_posts[c] = 0
  /\ observations \in PostLists(MaxObservations) \cup SplitLists \cup ExampleLists
  /\ rotation = NoRotation
  /\ limiter = NoLimiter
  /\ channel = NoChannel
  /\ now = 0
  /\ ret = NoRet
  /\ calls = 0
  /\ call_limit = 1

AggregatorNext ==
  \/ aggregate_country_emotions
  \/ aggregate

SpecAggregator == AggregatorInit /\ [][AggregatorNext]_vars

\* the emotion of more than half of the posts, if there is one
MajorityOf(posts) ==
  { e \in { posts[i].emotion : i \in 1..Len(posts) } :
      2 * CountOf(EmotionsOf(posts), e) > Len(posts) }

\* C20 as stated: whenever one emotion has more than half of the posts, the
\* dominant emotion is that emotion, whatever the confidences.
C20_MajorityAlwaysWins ==
  ret.op = "aggregate_country_emotions" =>
    \A e \in MajorityOf(ret.posts) : ret.result.dominant_emotion = e

\* C20: whenever one emotion has more than half of the posts and also wins
\* the confidence-weighted vote, the dominant emotion is that emotion.
C20_MajorityWinsWithWeightedVote ==
  ret.op = "aggregate_country_emotions" =>
    \A e \in MajorityOf(ret.posts) :
      ret.result.algorithm_votes["weighted"][1] = e =>
        ret.result.dominant_emotion = e

\* the majority emotion wins although both intensity votes went to another
C20_Witness ==
  /\ ret.op = "aggregate_country_emotions"
  /\ \E e \in MajorityOf(ret.posts) :
       /\ ret.result.algorithm_votes["weighted"][1] = e
       /\ ret.result.algorithm_votes["intensity"][1] # e
       /\ ret.result.algorithm_votes["intensity_median"][1] # e
       /\ ret.result.dominant_emotion = e

\* the winners of the four algorithms, in the order majority, weighted,
\* intensity, median
WinnersOf(votes) ==
  << votes["majority"][1], votes["weighted"][1], votes["intensity"][1],
     votes["intensity_median"][1] >>

\* the first position of a label among the winners
FirstAt(winners, e) == CHOOSE i \in 1..4 : winners[i] = e /\ \A j \in 1..(i - 1) : winners[j] # e

\* C21: the dominant emotion is one of the four winners, no winner occurs
\* more often among the four than it does, and every winner that occurs as
\* often comes later in the order majority, weighted, intensity, median.
C21_ConsensusIsFirstMode ==
  ( ret.op = "aggregate_country_emotions" /\ ret.posts # << >> ) =>
    LET winners == WinnersOf(ret.result.algorithm_votes)
        dominant == ret.result.dominant_emotion
    IN  /\ \E i \in 1..4 : winners[i] = dominant
        /\ \A i \in 1..4 :
             \/ CountOf(winners, winners[i]) < CountOf(winners, dominant)
             \/ /\ CountOf(winners, winners[i]) = CountOf(winners, dominant)
                /\ FirstAt(winners, dominant) <= FirstAt(winners, winners[i])

\* four algorithms, four different winners: the winner of the majority vote
\* is the dominant emotion
C21_Witness ==
  /\ ret.op = "aggregate_country_emotions"
  /\ ret.posts # << >>
  /\ Cardinality({ WinnersOf(ret.result.algorithm_votes)[i] : i \in 1..4 }) = 4
  /\ ret.result.dominant_emotion = ret.result.algorithm_votes["majority"][1]

\* C22: whatever the posts (none, one, several of different emotions), the
\* confidence of a result is at least 0 and at most 1.
C22_ConfidenceInUnitInterval ==
  ( ret.op \in { "aggregate_country_emotions", "aggregate" }
    /\ ret.returned = "dict" ) =>
    /\ RatLeq(R(0), ret.result.confidence)
    /\ RatLeq(ret.result.confidence, R(1))

\* three posts of three emotions, each fully confident
C22_Witness ==
  /\ ret.op = "aggregate_country_emotions"
  /\ Len(ret.posts) = 3
  /\ Cardinality({ ret.posts[i].emotion : i \in 1..3 }) = 3
  /\ \A i \in 1..3 : ret.posts[i].confidence = R(1)
  /\ ret.result.confidence = Rat(6, 10)

\* 0.6 * count(label) / N + 0.4 * (the sum of all confidences) / N
WeightedAgreement(posts, label) ==
  LET n == Len(posts)
      count == Cardinality({ i \in 1..n : posts[i].emotion = label })
      total == RatSum([i \in 1..n |-> posts[i].confidence])
  IN  RatAdd(Rat(6 * count, 10 * n), RatMul(Rat(4, 10), RatDiv(total, R(n))))

\* C23: for posts that are not empty the reported confidence is within half
\* a hundredth (the rounding to two decimals) of
\* min(1, 0.6 * count(dominant emotion) / N + 0.4 * mean of all confidences).
C23_ConfidenceFormula ==
  ( ret.op = "aggregate_country_emotions" /\ ret.posts # << >> ) =>
    LET exact == RatMin(R(1), WeightedAgreement(ret.posts, ret.result.dominant_emotion))
        reported == ret.result.confidence
    IN  /\ RatLeq(RatAdd(reported, RatNeg(exact)), Rat(1, 200))
        /\ RatLeq(RatAdd(exact, RatNeg(reported)), Rat(1, 200))

\* two joy posts at 0.9 and 0.8 and a sadness post at 0.3: joy, at 0.67
C23_Witness ==
  /\ ret.op = "aggregate_country_emotions"
  /\ ret.posts \in ExampleLists
  /\ ret.result.dominant_emotion = "joy"
  /\ ret.result.confidence = Rat(67, 100)

\* the sum of the counts of a distribution
RECURSIVE SumOfCounts(_, _)
SumOfCounts(distribution, labels) ==
  IF labels = { } THEN 0
  ELSE LET e == CHOOSE x \in labels : TRUE
       IN  distribution[e] + SumOfCounts(distribution, labels \ { e })

\* the distribution of a returned result
DistributionOf(r) ==
  IF r.op = "aggregate" THEN r.result.emotion_distribution
  ELSE r.result.distribution

\* C24: in every result the counts of the distribution add up to the number
\* of posts, and the distribution has a count for exactly the emotions that
\* occur among the posts.
C24_DistributionCountsPosts ==
  ( ret.op \in { "aggregate_country_emotions", "aggregate" }
    /\ ret.returned = "dict" ) =>
    LET distribution == DistributionOf(ret)
    IN  /\ SumOfCounts(distribution, DOMAIN distribution) = Len(ret.posts)
        /\ DOMAIN distribution = { ret.posts[i].emotion : i \in 1..Len(ret.posts) }
        /\ \A e \in DOMAIN distribution : distribution[e] > 0

\* six posts of four emotions, two of which occur twice
C24_Witness ==
  /\ ret.op = "aggregate_country_emotions"
  /\ Len(ret.posts) = 6
  /\ Cardinality(DOMAIN ret.result.distribution) = 4
  /\ ret.result.distribution["anger"] = 2
  /\ ret.result.distribution["fear"] = 1

\* C25: an aggregator called with no posts returns a result, and the result
\* has the dominant emotion neutral and the confidence 0.
C25_NoPostsGiveNeutral ==
  ( ret.op \in { "aggregate_country_emotions", "aggregate" }
    /\ ret.posts = << >> ) =>
    /\ ret.returned = "dict"
    /\ ret.result.dominant_emotion = "neutral"
    /\ ret.result.confidence = R(0)

\* ------------------------------------------------------ the emotion trend
\* negative_emotions of _calculate_trend_direction
negative_emotions == { "anger", "fear", "sadness", "disgust" }

\* sum(1 for t in trends if t['emotion'] in negative_emotions)
Negatives(trends) ==
  Cardinality({ i \in 1..Len(trends) : trends[i].emotion \in negative_emotions })

\* trends[-3:]
LastThree(trends) ==
  SubSeq(trends, IF Len(trends) > 3 THEN Len(trends) - 2 ELSE 1, Len(trends))

\* the negatives of trends[:-3], whatever the number of windows
OldNegatives_NoGuard(trends) == Negatives(SubSeq(trends, 1, Len(trends) - 3))

\* old_negatives: the negatives of trends[:-3] if len(trends) > 3, else
\* recent_negatives
OldNegatives(trends) ==
  IF Len(trends) > 3
    THEN Negatives(SubSeq(trends, 1, Len(trends) - 3))
    ELSE Negatives(LastThree(trends))

\* CountryEmotionAggregator._calculate_trend_direction
calculate_trend_direction(trends) ==
  IF Len(trends) < 2 THEN "insufficient_data"
  ELSE LET recent_negatives == Negatives(LastThree(trends))
           old_negatives == OldNegatives(trends)
       IN  IF recent_negatives > old_negatives THEN "worsening"
           ELSE IF recent_negatives < old_negatives THEN "improving"
           ELSE "stable"

\* CountryEmotionAggregator.get_emotion_trend(posts_by_time)
GetEmotionTrend(posts_by_time) ==
  LET trends ==
        Listed([i \in 1..Len(posts_by_time) |->
                  LET agg_result == AggregateCountryEmotions(posts_by_time[i])
                  IN  [emotion |-> agg_result.dominant_emotion,
                       confidence |-> agg_result.confidence,
                       post_count |-> Len(posts_by_time[i])]])
  IN  [trends |-> trends, trend_direction |-> calculate_trend_direction(trends)]

\* the posts of one time window: none, or one post
WindowPosts ==
  { << >>, << [emotion |-> "anger", confidence |-> R(1)] >>,
    << [emotion |-> "joy", confidence |-> R(1)] >> }

\* the sequences of at most n time windows
RECURSIVE WindowLists(_)
WindowLists(n) ==
  IF n = 0 THEN { << >> }
  ELSE LET shorter == WindowLists(n - 1)
       IN  shorter \cup { Append(l, w) : l \in { x \in shorter : Len(x) = n - 1 },
                                        w \in WindowPosts }

\* the trend of a country is asked for
get_emotion_trend ==
  /\ calls < call_limit
  /\ calls' = calls + 1
  /\ ret' = [op |-> "get_emotion_trend", posts_by_time |-> observations,
             result |-> GetEmotionTrend(observations)]
  /\ UNCHANGED << scheduler_vars, now, call_limit, outcomes, thread_vars,
                  ml_vars, cache_vars, observations, rotation, limiter, channel >>

TrendInit ==
  /\ SchedulerInit({ << >> })
  /\ NoThreads
  /\ ModelsInit
  /\ CacheInit
  /\ \A c \in DOMAIN raw_posts : raw_posts[c] = 0
  /\ observations \in WindowLists(MaxWindows)
  /\ rotation = NoRotation
  /\ limiter = NoLimiter
  /\ channel = NoChannel
  /\ now = 0
  /\ ret = NoRet
  /\ calls = 0
  /\ call_limit = 1

TrendNext == get_emotion_trend

SpecTrend == TrendInit /\ [][TrendNext]_vars

\* the number of windows in a third of n windows
ThirdOf(n) == (n + 2) \div 3

\* the number of windows i..j whose emotion is negative
NegativeWindows(trends, i, j) ==
  Cardinality({ k \in i..j : trends[k].emotion \in { "anger", "fear", "sadness", "disgust" } })

\* worsening, improving or stable, for a number now and a number before
Compared(recent, old) ==
  IF recent > old THEN "worsening"
  ELSE IF recent < old THEN "improving"
  ELSE "stable"

\* C26 as stated: the direction compares the negative windows of the most
\* recent third of the windows with those of the earliest third, and is
\* insufficient_data for fewer than 2 windows.
C26_TrendComparesThirds ==
  ret.op = "get_emotion_trend" =>
    LET trends == ret.result.trends
        n == Len(trends)
    IN  ret.result.trend_direction =
          IF n < 2 THEN "insufficient_data"
          ELSE Compared(NegativeWindows(trends, n - ThirdOf(n) + 1, n),
                        NegativeWindows(trends, 1, ThirdOf(n)))

\* C26: the direction compares the negative windows among the last three
\* windows with those among all the windows before them; it is stable for 2
\* or 3 windows and insufficient_data for fewer than 2.
C26_TrendComparesLastThree ==
  ret.op = "get_emotion_trend" =>
    LET trends == ret.result.trends
        n == Len(trends)
    IN  ret.result.trend_direction =
          IF n < 2 THEN "insufficient_data"
          ELSE IF n <= 3 THEN "stable"
          ELSE Compared(NegativeWindows(trends, n - 2, n),
                        NegativeWindows(trends, 1, n - 3))

\* six windows whose first two and last two have no negative emotion, and
\* whose direction is improving
C26_Witness ==
  /\ ret.op = "get_emotion_trend"
  /\ Len(ret.result.trends) = 6
  /\ NegativeWindows(ret.result.trends, 1, 2) = 0
  /\ NegativeWindows(ret.result.trends, 5, 6) = 0
  /\ ret.result.trend_direction = "improving"

\* ------------------------------------------------- the circular rotation
\* the threads that ask the rotation for a batch
Fetchers == { "fetcher-1", "fetcher-2" }

\* the country lists and the batch sizes of the rotation
RotationLists == { SubSeq(ALL_COUNTRIES, 1, n) : n \in 1..3 }

BatchSizes == { 1, 2, 5 }

\* with self.lock: thread t enters get_next_batch; batch = []
gnb_lock(t) ==
  /\ pc[t] = "idle"
  /\ rotation.lock = None
  /\ calls < call_limit
  /\ calls' = calls + 1
  /\ rotation' = [rotation EXCEPT !.lock = t, !.entered = @ + 1]
  /\ frame' = [frame EXCEPT ![t] = [op |-> "get_next_batch",
                                    call |-> rotation.entered + 1,
                                    batch |-> << >>, returned |-> << >>]]
  /\ Goto(t, "gnb_append")
  /\ UNCHANGED << scheduler_vars, now, ret, call_limit, outcomes, ml_vars,
                  cache_vars, observations, limiter, channel >>

\* batch.append(self.countries[self.current_index]); self.current_index += 1
gnb_append(t) ==
  /\ pc[t] = "gnb_append"
  /\ frame' = [frame EXCEPT ![t].batch =
                 Append(@, rotation.countries[rotation.current_index + 1])]
  /\ rotation' = [rotation EXCEPT !.current_index = @ + 1]
  /\ Goto(t, "gnb_wrap")
  /\ UNCHANGED << scheduler_vars, now, ret, calls, call_limit, outcomes,
                  ml_vars, cache_vars, observations, limiter, channel >>

\* a wrap around that does not count the cycle
Wrapped_KeepsCycle(r) ==
  IF r.current_index >= Len(r.countries)
    THEN [r EXCEPT !.current_index = 0]
    ELSE r

\* if self.current_index >= len(self.countries): self.current_index = 0;
\* self.cycle_number += 1
Wrapped(r) ==
  IF r.current_index >= Len(r.countries)
    THEN [r EXCEPT !.current_index = 0, !.cycle_number = @ + 1]
    ELSE r

\* the wrap around, and the next turn of the loop, if there is one
gnb_wrap(t) ==
  /\ pc[t] = "gnb_wrap"
  /\ rotation' = Wrapped(rotation)
  /\ Goto(t, IF Len(frame[t].batch) < rotation.countries_per_batch
               THEN "gnb_append"
               ELSE "gnb_return")
  /\ UNCHANGED << scheduler_vars, now, ret, calls, call_limit, outcomes,
                  frame, ml_vars, cache_vars, observations, limiter, channel >>

\* return batch, self.cycle_number, self.current_index; the lock is released
gnb_return(t) ==
  LET record == [frame[t] EXCEPT !.returned =
                   << frame[t].batch, rotation.cycle_number, rotation.current_index >>]
  IN  /\ pc[t] = "gnb_return"
      /\ rotation' = [rotation EXCEPT !.lock = None]
      /\ frame' = [frame EXCEPT ![t] = record]
      /\ ret' = record
      /\ Goto(t, "idle")
      /\ UNCHANGED << scheduler_vars, now, calls, call_limit, outcomes,
                      ml_vars, cache_vars, observations, limiter, channel >>

\* CircularRotation(countries), with countries_per_batch as the caller set it
RotationInit ==
  /\ SchedulerInit({ << >> })
  /\ \A c \in DOMAIN raw_posts : raw_posts[c] = 0
  /\ pc = [t \in Fetchers |-> "idle"]
  /\ frame = [t \in Fetchers |-> [op |-> "none"]]
  /\ ModelsInit
  /\ CacheInit
  /\ observations = << >>
  /\ limiter = NoLimiter
  /\ channel = NoChannel
  /\ \E countries \in RotationLists, size \in BatchSizes :
       rotation = [countries |-> countries, current_index |-> 0,
                   cycle_number |-> 0, countries_per_batch |-> size,
                   lock |-> None, entered |-> 0]
  /\ now = 0
  /\ ret = NoRet
  /\ calls = 0
  /\ call_limit = MaxCalls

RotationNext ==
  \/ \E t \in Fetchers : gnb_lock(t)
  \/ \E t \in Fetchers : gnb_append(t)
  \/ \E t \in Fetchers : gnb_wrap(t)
  \/ \E t \in Fetchers : gnb_return(t)

SpecRotation == RotationInit /\ [][RotationNext]_vars

\* position p (counted from 0) of the country list repeated cyclically
Cyclic(countries, p) == countries[(p % Len(countries)) + 1]

Coordinator == "coordinator"

\* the age, in seconds, from which the time decay no longer grows:
\* min(hours / 24, 3.0) is 3.0 from 72 hours on
DecayHorizon == 72 * SecondsPerHour

\* the stored-post count from which the data need no longer falls
WellStocked == 100

\* the pending-analysis backlog the loop finds when it goes to sleep
LoopBacklogs == { 50 }

\* the seconds the fetches of one cycle take, the same in every cycle of a
\* run: a quarter of a day, a day, and more than the decay horizon
FetchTimes == { 6 * SecondsPerHour, 24 * SecondsPerHour, 96 * SecondsPerHour }

\* what a fetch of the loop reports: the failing country errs every time,
\* every other country stores posts
FetchOf(country) ==
  IF country = frame[Coordinator].failing
    THEN [error |-> TRUE, stored |-> 0]
    ELSE [error |-> FALSE, stored |-> 30]

\* the metrics after a sleep of d seconds. The clock is kept relative: a
\* sleep moves every last_fetch d seconds into the past, and no further than
\* the age at which calculate_priority_score stops telling ages apart
Slept(m, d) ==
  IF m.last_fetch = << >> THEN m
  ELSE [m EXCEPT !.last_fetch =
          << IF @[1] - d < now - DecayHorizon THEN now - DecayHorizon
             ELSE @[1] - d >>]

\* compute batch: get_next_batch()
loop_next_batch ==
  LET r == BatchFrom(RebuildQueue(<< >>, 1), << >>)
  IN  /\ pc[Coordinator] = "next_batch"
      /\ priority_queue' = r[2]
      /\ frame' = [frame EXCEPT ![Coordinator].batch = r[1]]
      /\ pc' = [pc EXCEPT ![Coordinator] = "fetch"]
      /\ ret' = [op |-> "get_next_batch", batch_size |-> << >>, batch |-> r[1]]
      /\ UNCHANGED << all_countries, country_metrics, current_interval,
                      raw_posts, now, calls, outcomes, call_limit, ml_vars,
                      cache_vars, observations, rotation, limiter, channel >>

\* the metrics of every country once d more seconds have passed
AllSlept(d) ==
  [c \in DOMAIN country_metrics |-> Slept(country_metrics[c], d)]

\* dispatch fetches, await outcomes: time passes while the batch is fetched
loop_fetch ==
  /\ pc[Coordinator] = "fetch"
  /\ country_metrics' = AllSlept(frame[Coordinator].fetch_time)
  /\ pc' = [pc EXCEPT ![Coordinator] = "record"]
  /\ ret' = [op |-> "fetch", batch |-> frame[Coordinator].batch]
  /\ UNCHANGED << all_countries, priority_queue, current_interval, raw_posts,
                  now, calls, outcomes, frame, call_limit, ml_vars, cache_vars,
                  observations, rotation, limiter, channel >>

\* record outcomes: update_metrics for the next country of the batch, whose
\* stored posts are in the database
loop_record ==
  /\ pc[Coordinator] = "record"
  /\ frame[Coordinator].batch # << >>
  /\ LET country == Head(frame[Coordinator].batch)
         result == FetchOf(country)
     IN  /\ country_metrics' =
              [country_metrics EXCEPT
                 ![country] = UpdatedMetrics(@, result, now, now)]
         /\ raw_posts' =
              [raw_posts EXCEPT
                 ![country] = Min2(@ + result.stored, WellStocked)]
         /\ ret' = [op |-> "update_metrics", country |-> country,
                    result |-> result, before |-> country_metrics[country],
                    at |-> now]
  /\ frame' = [frame EXCEPT ![Coordinator].batch = Tail(@)]
  /\ UNCHANGED << all_countries, priority_queue, current_interval, now, calls,
                  outcomes, pc, call_limit, ml_vars, cache_vars, observations,
                  rotation, limiter, channel >>

\* sleep for calculate_adaptive_interval(), then repeat
loop_sleep ==
  /\ pc[Coordinator] = "record"
  /\ frame[Coordinator].batch = << >>
  /\ \E unanalyzed \in LoopBacklogs :
       LET interval == AdaptiveInterval(UrgentCount, unanalyzed)
       IN  /\ current_interval' = interval
           /\ country_metrics' = AllSlept(interval)
           /\ ret' = [op |-> "sleep", unanalyzed |-> unanalyzed,
                      value |-> interval]
  /\ pc' = [pc EXCEPT ![Coordinator] = "next_batch"]
  /\ UNCHANGED << all_countries, priority_queue, raw_posts, now, calls,
                  outcomes, frame, call_limit, ml_vars, cache_vars,
                  observations, rotation, limiter, channel >>

\* the scheduler of MaxTracked countries over a well-stocked database, and
\* one country, of those reported, whose fetches all fail
LoopInit ==
  /\ SchedulerInit({ SubSeq(ALL_COUNTRIES, 1, MaxTracked) })
  /\ \A c \in DOMAIN raw_posts : raw_posts[c] = WellStocked
  /\ pc = [t \in { Coordinator } |-> "next_batch"]
  /\ \E failing \in Targets, fetch_time \in FetchTimes :
       frame = [t \in { Coordinator } |->
                  [batch |-> << >>, failing |-> failing,
                   fetch_time |-> fetch_time]]
  /\ ModelsInit
  /\ CacheInit
  /\ observations = << >>
  /\ rotation = NoRotation
  /\ limiter = NoLimiter
  /\ channel = NoChannel
  /\ now = DecayHorizon
  /\ ret = NoRet
  /\ calls = 0
  /\ call_limit = 0

LoopNext ==
  \/ loop_next_batch
  \/ loop_fetch
  \/ loop_record
  \/ loop_sleep

\* the coordinator moves on to another step of its loop
CoordinatorRuns ==
  \E l \in { "next_batch", "fetch", "record" } :
    pc' = [pc EXCEPT ![Coordinator] = l]

\* the loop never stops: one thread runs it for as long as the process
\* lives, so its position in the loop changes again and again
SpecLoop == LoopInit /\ [][LoopNext]_vars /\ WF_pc(CoordinatorRuns)

\* the failing country is in the batch that was just computed
FailingSelected ==
  /\ ret.op = "get_next_batch"
  /\ frame[Coordinator].failing \in Range(ret.batch)

\* C28: a country whose every fetch errs, in a loop whose other countries
\* all succeed, is selected by get_next_batch again and again, for ever.
C28_FailingCountryRevisited == []<>FailingSelected

\* ------------------------------------------------- the failure streak
\* the outcomes recorded for the country, up to the i-th outcome of all, since
\* its most recent productive one: not erred, and posts stored
RECURSIVE StreakOf(_, _)
StreakOf(country, i) ==
  IF i = 0 THEN 0
  ELSE LET o == outcomes[i]
       IN  IF o.country # country THEN StreakOf(country, i - 1)
           ELSE IF ~o.result.error /\ o.result.stored > 0 THEN 0
           ELSE 1 + StreakOf(country, i - 1)

\* C29: consecutive_failures of a country is the number of outcomes recorded
\* for it since its most recent productive outcome, or since startup; and
\* the success penalty of the score is half the success rate exactly when
\* that number is at least 4, the whole success rate otherwise.
C29_StreakSinceProductive ==
  \A c \in DOMAIN country_metrics :
    LET m == country_metrics[c]
        streak == StreakOf(c, Len(outcomes))
    IN  /\ m.consecutive_failures = streak
        /\ streak >= 4 =>
             SuccessPenalty(m) = RatMul(m.success_rate, Rat(1, 2))
        /\ streak < 4 => SuccessPenalty(m) = m.success_rate

\* a productive fetch has just ended a streak of four outcomes, erred and
\* empty ones among them, that had the penalty halved
C29_Witness ==
  /\ ret.op = "update_metrics"
  /\ ~ret.result.error
  /\ ret.result.stored > 0
  /\ ret.before.consecutive_failures = 4
  /\ SuccessPenalty(ret.before) = RatMul(ret.before.success_rate, Rat(1, 2))
  /\ country_metrics[ret.country].consecutive_failures = 0
  /\ \E i, j \in 1..Len(outcomes) :
       /\ outcomes[i].result.error
       /\ ~outcomes[j].result.error
       /\ outcomes[j].result.stored = 0

\* ------------------------------------------------- the idle check alone
\* the idle checker starts a call of unload_models_if_idle in this step
ReapBegins ==
  /\ pc[IdleChecker] = "sleeping"
  /\ calls' = calls + 1
  /\ ret'.op = "unload_models_if_idle"

\* C30: a call of unload_models_if_idle that finds the models not loaded, or
\* used no more than MODEL_IDLE_TIMEOUT seconds ago, ends at once and leaves
\* models, models_loaded and last_model_use_time as they were; it goes on to
\* unload exactly when the models are loaded and were last used more than the
\* timeout ago, and then it sets every model to None and models_loaded to
\* False before it ends, and never writes last_model_use_time.
C30_ReapOnlyWhenIdle ==
  [][ /\ ReapBegins =>
           /\ ml_vars' = ml_vars
           /\ IF models_loaded /\ now - last_model_use_time > MODEL_IDLE_TIMEOUT
                THEN pc'[IdleChecker] = "unload_models"
                ELSE pc'[IdleChecker] = "sleeping"
      /\ pc'[IdleChecker] # pc[IdleChecker] =>
           /\ last_model_use_time' = last_model_use_time
           /\ pc[IdleChecker] = "unload_models" =>
                /\ pc'[IdleChecker] = "unload_flag"
                /\ \A k \in DOMAIN models' : models'[k] = None
                /\ models_loaded' = models_loaded
           /\ pc[IdleChecker] = "unload_flag" =>
                /\ pc'[IdleChecker] = "sleeping"
                /\ models' = models
                /\ \A k \in DOMAIN models : models[k] = None
                /\ models_loaded' = FALSE
    ]_vars

\* a call has unloaded models that were loaded and last used 601 seconds
\* before it, and has ended
C30_Witness ==
  /\ ret.op = "unload_models_if_idle"
  /\ ret.unloading
  /\ ret.at - last_model_use_time = MODEL_IDLE_TIMEOUT + 1
  /\ pc[IdleChecker] = "sleeping"
  /\ ~models_loaded
  /\ \A k \in DOMAIN models : models[k] = None

\* --------------------------------------------- the idle checker for ever
\* idle_checker_thread: time.sleep(60)
CheckPeriod == 60

\* the age from which unload_models_if_idle finds the models idle at every
\* check
IdleHorizon == MODEL_IDLE_TIMEOUT + CheckPeriod

\* a message reaches the consumer, which starts an analysis of it; the
\* queue delivers call_limit messages and then no more
message_arrives(t, key) ==
  /\ pc[t] = "idle"
  /\ calls < call_limit
  /\ calls' = calls + 1
  /\ frame' = [frame EXCEPT ![t].key = key, ![t].outcome = None]
  /\ Goto(t, "check")
  /\ UNCHANGED << scheduler_vars, now, ret, call_limit, outcomes, ml_vars,
                  cache_vars, observations, rotation, limiter, channel >>

\* idle_checker_thread: time.sleep(60). The clock is kept relative: the
\* sleep moves last_model_use_time a period into the past, and no further
\* than the age from which every check finds the models idle
reap_sleep(t) ==
  /\ pc[t] = "sleeping"
  /\ last_model_use_time' =
       IF last_model_use_time - CheckPeriod < now - IdleHorizon
         THEN now - IdleHorizon
         ELSE last_model_use_time - CheckPeriod
  /\ Goto(t, "checking")
  /\ UNCHANGED << scheduler_vars, now, ret, calls, call_limit, outcomes,
                  frame, models, models_loaded, cache_vars, observations,
                  rotation, limiter, channel >>

\* idle_checker_thread: unload_models_if_idle(), the two tests
reap_check(t) ==
  LET idle_time == now - last_model_use_time
      unloading == models_loaded /\ IsIdle(idle_time)
  IN  /\ pc[t] = "checking"
      /\ ret' = [op |-> "unload_models_if_idle", at |-> now,
                 unloading |-> unloading, inferences |-> InferenceTimes]
      /\ Goto(t, IF unloading THEN "unload_models" ELSE "sleeping")
      /\ UNCHANGED << scheduler_vars, now, calls, call_limit, outcomes, frame,
                      ml_vars, cache_vars, observations, rotation, limiter, channel >>

\* the ML analyzer service, its clock at the idle horizon
ReaperInit ==
  /\ SchedulerInit({ << >> })
  /\ \A c \in DOMAIN raw_posts : raw_posts[c] = 0
  /\ pc = [t \in Workers \cup { IdleChecker } |->
             IF t = IdleChecker THEN "sleeping" ELSE "idle"]
  /\ frame = [t \in Workers \cup { IdleChecker } |-> NoAnalysis]
  /\ ModelsInit
  /\ CacheInit
  /\ observations = << >>
  /\ rotation = NoRotation
  /\ limiter = NoLimiter
  /\ channel = NoChannel
  /\ now = IdleHorizon
  /\ ret = NoRet
  /\ calls = 0
  /\ call_limit = MaxCalls

\* the steps of the idle checker thread
ReaperSteps ==
  \/ reap_sleep(IdleChecker)
  \/ reap_check(IdleChecker)
  \/ ic_unload_models(IdleChecker)
  \/ ic_unload_flag(IdleChecker)

ReaperNext ==
  \/ \E t \in Workers, key \in AnalysisModels : message_arrives(t, key)
  \/ \E t \in Workers : am_check(t)
  \/ \E t \in Workers : lm_entry(t)
  \/ \E t \in Workers : lm_load(t)
  \/ \E t \in Workers : lm_loaded(t)
  \/ \E t \in Workers : am_failed(t)
  \/ \E t \in Workers : am_invoke(t)
  \/ ReaperSteps

\* the idle checker is a daemon thread that loops for ever; nothing is
\* assumed of the consumer
SpecReaper == ReaperInit /\ [][ReaperNext]_vars /\ WF_vars(ReaperSteps)

\* C31: once no more messages arrive, the idle checker brings models_loaded
\* to False for good; and models_loaded only ever becomes True in the last
\* statement of a load_models call.
C31_IdleModelsAreUnloaded ==
  /\ <>[](~models_loaded)
  /\ [][ ~models_loaded /\ models_loaded' =>
           \E t \in Workers : pc[t] = "loaded" /\ pc'[t] = "invoke" ]_vars

\* the idle checker has unloaded the models that the last message left
\* loaded
C31_Witness ==
  /\ calls = call_limit
  /\ \A t \in Workers : pc[t] = "idle" /\ frame[t].outcome = "result"
  /\ ret.op = "unload_models_if_idle"
  /\ ret.unloading
  /\ pc[IdleChecker] = "sleeping"
  /\ ~models_loaded

\* ------------------------------------- the result cache, for any strings
\* cache types and keys as any caller may pass them: a str may hold colons
AnyCacheTypes == { << "emotions" >>, << "emotions", Colon, "v2" >> }

AnyCacheKeys == { << "all" >>, << "v2", Colon, "all" >> }

\* the cache manager called with any strings, from one thread
CacheStringsInit ==
  /\ SchedulerInit({ << >> })
  /\ \A c \in DOMAIN raw_posts : raw_posts[c] = 0
  /\ NoThreads
  /\ ModelsInit
  /\ CacheInit
  /\ observations = << >>
  /\ rotation = NoRotation
  /\ limiter = NoLimiter
  /\ channel = NoChannel
  /\ now = 0
  /\ ret = NoRet
  /\ calls = 0
  /\ call_limit = MaxCalls

CacheStringsNext ==
  \/ \E t \in AnyCacheTypes, k \in AnyCacheKeys : cache_get(t, k)
  \/ \E t \in AnyCacheTypes, k \in AnyCacheKeys, v \in CacheValues :
       cache_set(t, k, v)
  \/ clear_expired
  \/ \E d \in CacheSteps : tick(d)

SpecCacheStrings == CacheStringsInit /\ [][CacheStringsNext]_vars

\* what get(cache_type, key) returns when it is called in this state
Served(cache_type, key) ==
  LET cache_key == CacheKey(cache_type, key)
  IN  IF cache_key \in DOMAIN cache
         /\ ~Expired(now - cache_times[cache_key], TtlOf(cache_type))
        THEN cache[cache_key]
        ELSE None

\* C32: a call of clear_expired changes what no get returns: it removes only
\* entries that get would report as a miss, for whatever cache type and key.
C32_ClearExpiredIsInvisible ==
  [][ ret'.op = "clear_expired" /\ calls' # calls =>
        \A t \in AnyCacheTypes, k \in AnyCacheKeys :
          Served(t, k)' = Served(t, k) ]_vars

\* C34: a set of one (cache_type, key) pair, and an eviction of it by get,
\* changes what get returns for no other pair.
C34_PairsAreIndependent ==
  [][ ret'.op \in { "set", "get" } /\ calls' # calls =>
        \A t \in AnyCacheTypes, k \in AnyCacheKeys :
          << t, k >> # << ret'.cache_type, ret'.key >> =>
            Served(t, k)' = Served(t, k) ]_vars

\* ------------------------------------------------- two callers that load
\* the Flask thread that serves POST /api/analyze (app.run, threaded=True)
ApiThread == "request-1"

\* the threads that call load_models
Loaders == Workers \cup { ApiThread }

\* analyze_manual: if not models_loaded: load_models(), and then
\* ensemble_emotion_analysis, which starts with analyze_emotion_roberta
analyze_manual(t) ==
  /\ pc[t] = "idle"
  /\ frame' = [frame EXCEPT ![t].key = "roberta", ![t].outcome = None]
  /\ Goto(t, IF ~models_loaded THEN "load_models" ELSE "check")
  /\ UNCHANGED << scheduler_vars, now, ret, calls, call_limit, outcomes,
                  ml_vars, cache_vars, observations, rotation, limiter, channel >>

\* the ML analyzer service with its consumer and one request thread
LoadersInit ==
  /\ SchedulerInit({ << >> })
  /\ \A c \in DOMAIN raw_posts : raw_posts[c] = 0
  /\ pc = [t \in Loaders |-> "idle"]
  /\ frame = [t \in Loaders |-> NoAnalysis]
  /\ ModelsInit
  /\ CacheInit
  /\ observations = << >>
  /\ rotation = NoRotation
  /\ limiter = NoLimiter
  /\ channel = NoChannel
  /\ now = 0
  /\ ret = NoRet
  /\ calls = 0
  /\ call_limit = MaxCalls

LoadersNext ==
  \/ \E t \in Workers, key \in AnalysisModels : analyze(t, key)
  \/ analyze_manual(ApiThread)
  \/ \E t \in Loaders : am_check(t)
  \/ \E t \in Loaders : lm_entry(t)
  \/ \E t \in Loaders : lm_load(t)
  \/ \E t \in Loaders : lm_loaded(t)
  \/ \E t \in Loaders : am_failed(t)
  \/ \E t \in Loaders : am_invoke(t)

SpecLoaders == LoadersInit /\ [][LoadersNext]_vars

\* the threads that are past the models_loaded test of load_models and
\* have not yet left it
Acquiring == { t \in DOMAIN pc : pc[t] \in { "loading", "loaded" } }

\* C33: the models are acquired by one caller of load_models at a time, and
\* models_loaded, on which every caller returns, is set only when every
\* model is in place.
C33_OneAcquisition ==
  /\ Cardinality(Acquiring) <= 1
  /\ models_loaded => \A k \in DOMAIN models : models[k] # None

\* ------------------------------------------------ the order of the posts
\* the posts with the posts at the positions i and j exchanged
Swapped(posts, i, j) ==
  [k \in 1..Len(posts) |->
     IF k = i THEN posts[j] ELSE IF k = j THEN posts[i] ELSE posts[k]]

\* the lists that differ from the posts by the exchange of two neighbours;
\* every order of the posts is reached from every other by such exchanges
Exchanges(posts) ==
  { Swapped(posts, i, i + 1) : i \in 1..(Len(posts) - 1) }

\* the dominant emotion, the confidence, the distribution and the winners of
\* the four algorithms of a result
VerdictOf(result) ==
  [dominant_emotion |-> result.dominant_emotion,
   confidence |-> result.confidence,
   distribution |-> result.distribution,
   winners |-> WinnersOf(result.algorithm_votes)]

\* the scores that the four algorithms compare, by emotion
ScoresOf(posts) ==
  LET emotions == EmotionsOf(posts)
      confidences == ConfidencesOf(posts)
      keys == { emotions[i] : i \in 1..Len(emotions) }
  IN  [majority |-> [e \in keys |-> R(CountOf(emotions, e))],
       weighted |->
         [e \in keys |->
            LET conf_list == ConfidenceList(emotions, confidences, e)
            IN  RatMul(Mean(conf_list), Rat(Len(conf_list), Len(emotions)))],
       intensity |->
         [e \in keys |-> RatSum(ScoreList(emotions, confidences, e))],
       intensity_median |->
         [e \in keys |-> Median(ScoreList(emotions, confidences, e))]]

\* two emotions share the highest score of one of the four algorithms
TopScoreShared(posts) ==
  LET scores == ScoresOf(posts)
  IN  \E a \in DOMAIN scores :
        \E e1, e2 \in DOMAIN scores[a] :
          /\ e1 # e2
          /\ scores[a][e1] = scores[a][e2]
          /\ \A e \in DOMAIN scores[a] : RatLeq(scores[a][e], scores[a][e1])

C36_StatsAreASnapshot ==
  [][ ( ret'.op = "get_stats" /\ calls' # calls ) =>
        /\ country_metrics' = country_metrics
        /\ ~ret'.raised =>
             LET stats == ret'.stats
                 counts == stats.priority_distribution
             IN  /\ counts["critical"] + counts["high"] + counts["medium"]
                      + counts["low"] = stats.total_countries
                 /\ RatLeq(R(0), stats.avg_success_rate)
                 /\ RatLeq(stats.avg_success_rate, R(1)) ]_vars

\* ------------------------------------------------ thread_error_recovery
MaxRetries == 7

\* the background threads started through thread_error_recovery
RecoveredThreads == { "Reddit Collection", "ML Analysis" }

\* doubling without the cap
NextBackoff_Uncapped(backoff_seconds) == backoff_seconds * 2

\* backoff_seconds = min(backoff_seconds * 2, 480)
NextBackoff(backoff_seconds) ==
  IF backoff_seconds * 2 < 480 THEN backoff_seconds * 2 ELSE 480

\* thread_error_recovery(func, thread_name, max_retries): the closure
Closure(max_retries) ==
  [max_retries |-> max_retries, retry_count |-> 0, backoff_seconds |-> 30,
   started |-> 0, slept |-> << >>]

\* while retry_count < max_retries: ... func(); past the loop the wrapper
\* logs that the thread stopped and returns
wrapper_test(t) ==
  /\ pc[t] = "while"
  /\ IF frame[t].retry_count < frame[t].max_retries
       THEN /\ Goto(t, "func")
            /\ frame' = [frame EXCEPT ![t].started = frame[t].retry_count + 1]
       ELSE /\ Goto(t, "stopped")
            /\ UNCHANGED frame
  /\ UNCHANGED << scheduler_vars, now, ret, calls, call_limit, outcomes,
                  ml_vars, cache_vars, observations, rotation, limiter, channel >>

\* func() returns without an exception: the loop tests again
func_returns(t) ==
  /\ pc[t] = "func"
  /\ Goto(t, "while")
  /\ UNCHANGED << scheduler_vars, now, ret, calls, call_limit, outcomes, frame,
                  ml_vars, cache_vars, observations, rotation, limiter, channel >>

\* func() raises an Exception: retry_count += 1, and either the break or
\* time.sleep(backoff_seconds)
func_raises(t) ==
  /\ pc[t] = "func"
  /\ LET retry_count == frame[t].retry_count + 1
     IN  IF retry_count >= frame[t].max_retries
           THEN /\ frame' = [frame EXCEPT ![t].retry_count = retry_count]
                /\ Goto(t, "stopped")
           ELSE /\ frame' = [frame EXCEPT
                               ![t].retry_count = retry_count,
                               ![t].slept = Append(@, frame[t].backoff_seconds)]
                /\ Goto(t, "sleep")
  /\ UNCHANGED << scheduler_vars, now, ret, calls, call_limit, outcomes,
                  ml_vars, cache_vars, observations, rotation, limiter, channel >>

\* the sleep ends: the backoff doubles up to its cap, and the loop tests again
wrapper_wakes(t) ==
  /\ pc[t] = "sleep"
  /\ frame' = [frame EXCEPT
                 ![t].backoff_seconds = NextBackoff(frame[t].backoff_seconds)]
  /\ Goto(t, "while")
  /\ UNCHANGED << scheduler_vars, now, ret, calls, call_limit, outcomes,
                  ml_vars, cache_vars, observations, rotation, limiter, channel >>

\* the two background threads at their start, each with its max_retries
RecoveryInit ==
  /\ SchedulerInit({ << >> })
  /\ \A c \in DOMAIN raw_posts : raw_posts[c] = 0
  /\ pc = [t \in RecoveredThreads |-> "while"]
  /\ \E limits \in [RecoveredThreads -> 1..MaxRetries] :
       frame = [t \in RecoveredThreads |-> Closure(limits[t])]
  /\ ModelsInit
  /\ CacheInit
  /\ observations = << >>
  /\ rotation = NoRotation
  /\ limiter = NoLimiter
  /\ channel = NoChannel
  /\ now = 0
  /\ ret = NoRet
  /\ calls = 0
  /\ call_limit = 0

RecoveryNext ==
  \/ \E t \in RecoveredThreads : wrapper_test(t)
  \/ \E t \in RecoveredThreads : func_returns(t)
  \/ \E t \in RecoveredThreads : func_raises(t)
  \/ \E t \in RecoveredThreads : wrapper_wakes(t)

SpecRecovery == RecoveryInit /\ [][RecoveryNext]_vars

\* 30 seconds after the first crash, twice the time before after each
\* further crash, and never more than 480
RECURSIVE BackoffAfter(_)
BackoffAfter(i) ==
  IF i = 1 THEN 30
  ELSE IF 2 * BackoffAfter(i - 1) > 480 THEN 480 ELSE 2 * BackoffAfter(i - 1)

\* C37: the sleep after the i-th crash lasts 30, 60, 120, 240, 480, 480, ...
\* seconds, func is started again after every crash but the last, and with
\* the crash that makes max_retries crashes the wrapper stops, without a
\* sleep, and never starts func again.
C37_BackoffAndGivingUp ==
  /\ [](\A t \in RecoveredThreads :
          LET f == frame[t]
          IN  /\ f.retry_count <= f.max_retries
              /\ \A i \in 1..Len(f.slept) : f.slept[i] = BackoffAfter(i)
              /\ Len(f.slept) =
                   IF f.retry_count < f.max_retries THEN f.retry_count
                   ELSE f.max_retries - 1
              /\ pc[t] = "stopped" <=> f.retry_count = f.max_retries
              /\ pc[t] = "func" => f.started = f.retry_count + 1
              /\ f.started <= f.max_retries)
  /\ [][ \A t \in RecoveredThreads :
           pc[t] = "stopped" => pc'[t] = "stopped" /\ frame'[t] = frame[t] ]_vars

\* a thread with max_retries 7 sleeps 480 seconds after its fifth and after
\* its sixth crash and is stopped by the seventh
C37_Witness ==
  \E t \in RecoveredThreads :
    /\ frame[t].max_retries = 7
    /\ pc[t] = "stopped"
    /\ frame[t].slept = << 30, 60, 120, 240, 480, 480 >>
    /\ frame[t].started = 7

\* ------------------------------------------------ the rate limiter
\* Times of the rate limiter are counted in tenths of a second, and a
\* recorded call is kept as its age, now - c, which stops growing at the
\* period: from there on the call is outside every window.
MaxLimit == 2

\* the periods the limiter is built with, in tenths of a second
Periods == { 2, 3 }

\* the workers of ThreadPoolExecutor(max_workers=3) that call the wrapped
\* search_regional_subreddits
Callers == { "fetch-1", "fetch-2", "fetch-3" }

\* a sleep that ends while the oldest call is still inside the window
SleepTime_Short(period, age) == period - age - 1

\* sleep_time = self.period - (now - self.calls[0]) + 0.1
SleepTime(period, age) == period - age + 1

\* [c for c in self.calls if now - c < self.period]
Recent(ages, period) == SelectSeq(ages, LAMBDA age : age < period)

\* the ages a tenth of a second later
Aged(ages, period) ==
  Listed([i \in 1..Len(ages) |-> IF ages[i] < period THEN ages[i] + 1 ELSE period])

\* a thread calls the wrapped function
rl_call(t) ==
  /\ pc[t] = "idle"
  /\ Goto(t, "with_lock")
  /\ UNCHANGED << scheduler_vars, now, ret, calls, call_limit, outcomes, frame,
                  ml_vars, cache_vars, observations, rotation, limiter, channel >>

\* with self.lock: the thread has the lock
rl_lock(t) ==
  /\ pc[t] = "with_lock"
  /\ limiter.lock = None
  /\ limiter' = [limiter EXCEPT !.lock = t]
  /\ Goto(t, "check")
  /\ UNCHANGED << scheduler_vars, now, ret, calls, call_limit, outcomes, frame,
                  ml_vars, cache_vars, observations, rotation, channel >>

\* now = time.time(); the calls older than the period are removed; with
\* max_calls calls left the thread computes sleep_time and sleeps, otherwise
\* self.calls.append(now)
rl_check(t) ==
  /\ pc[t] = "check"
  /\ LET recent == Recent(limiter.calls, limiter.period)
     IN  IF Len(recent) >= limiter.max_calls
           THEN /\ limiter' = [limiter EXCEPT !.calls = recent]
                /\ frame' = [frame EXCEPT
                               ![t].sleep_time = SleepTime(limiter.period, recent[1]),
                               ![t].slept = TRUE]
                /\ Goto(t, "sleep")
           ELSE /\ limiter' = [limiter EXCEPT !.calls = Append(recent, 0),
                                              !.admitted = Append(@, 0)]
                /\ frame' = [frame EXCEPT ![t].slept = FALSE]
                /\ Goto(t, "release")
  /\ UNCHANGED << scheduler_vars, now, ret, calls, call_limit, outcomes,
                  ml_vars, cache_vars, observations, rotation, channel >>

\* time.sleep(sleep_time) is over; now = time.time(); the calls older than
\* the period are removed; self.calls.append(now)
rl_wake(t) ==
  /\ pc[t] = "sleep"
  /\ frame[t].sleep_time <= 0
  /\ limiter' = [limiter EXCEPT
                   !.calls = Append(Recent(limiter.calls, limiter.period), 0),
                   !.admitted = Append(@, 0)]
  /\ Goto(t, "release")
  /\ UNCHANGED << scheduler_vars, now, ret, calls, call_limit, outcomes, frame,
                  ml_vars, cache_vars, observations, rotation, channel >>

\* the end of with self.lock
rl_release(t) ==
  /\ pc[t] = "release"
  /\ limiter' = [limiter EXCEPT !.lock = None]
  /\ Goto(t, "func")
  /\ UNCHANGED << scheduler_vars, now, ret, calls, call_limit, outcomes, frame,
                  ml_vars, cache_vars, observations, rotation, channel >>

\* return func(*args, **kwargs)
rl_func(t) ==
  /\ pc[t] = "func"
  /\ Goto(t, "idle")
  /\ UNCHANGED << scheduler_vars, now, ret, calls, call_limit, outcomes, frame,
                  ml_vars, cache_vars, observations, rotation, limiter, channel >>

\* a tenth of a second passes: every recorded call is a tenth older, the
\* admissions that leave the window are forgotten, and the sleepers have a
\* tenth less to sleep
rl_tick ==
  /\ limiter' = [limiter EXCEPT
                   !.calls = Aged(@, limiter.period),
                   !.admitted = Recent(Aged(@, limiter.period), limiter.period)]
  /\ frame' = [t \in DOMAIN frame |->
                 IF pc[t] = "sleep" /\ frame[t].sleep_time > 0
                   THEN [frame[t] EXCEPT !.sleep_time = @ - 1]
                   ELSE frame[t]]
  /\ UNCHANGED << scheduler_vars, now, ret, calls, call_limit, outcomes, pc,
                  ml_vars, cache_vars, observations, rotation, channel >>

\* RateLimiter(max_calls, period) and the three workers
LimiterInit ==
  /\ SchedulerInit({ << >> })
  /\ \A c \in DOMAIN raw_posts : raw_posts[c] = 0
  /\ pc = [t \in Callers |-> "idle"]
  /\ frame = [t \in Callers |-> [sleep_time |-> 0, slept |-> FALSE]]
  /\ ModelsInit
  /\ CacheInit
  /\ observations = << >>
  /\ rotation = NoRotation
  /\ \E max_calls \in 1..MaxLimit, period \in Periods :
       limiter = [max_calls |-> max_calls, period |-> period, calls |-> << >>,
                  lock |-> None, admitted |-> << >>]
  /\ channel = NoChannel
  /\ now = 0
  /\ ret = NoRet
  /\ calls = 0
  /\ call_limit = 0

LimiterNext ==
  \/ \E t \in Callers : rl_call(t)
  \/ \E t \in Callers : rl_lock(t)
  \/ \E t \in Callers : rl_check(t)
  \/ \E t \in Callers : rl_wake(t)
  \/ \E t \in Callers : rl_release(t)
  \/ \E t \in Callers : rl_func(t)
  \/ rl_tick

\* time passes, a thread that can take a step takes it, and a thread that
\* waits for the lock is not passed over for ever
SpecLimiter ==
  /\ LimiterInit
  /\ [][LimiterNext]_vars
  /\ WF_vars(rl_tick)
  /\ \A t \in Callers :
       /\ SF_vars(rl_lock(t))
       /\ WF_vars(rl_check(t))
       /\ WF_vars(rl_wake(t))
       /\ WF_vars(rl_release(t))

MaxMessages == 2

MaxFaults == 1

\* the services whose consumer thread handles the messages of a queue
Services == { "ml_analyzer", "country_aggregation" }

\* message bodies: an event of a post that is in raw_posts, an event of a
\* post that is not, and a body that json.loads rejects
Bodies == { "post 1", "post 404", "not json" }

NoDelivery == [body |-> None, acks |-> 0, nacks |-> 0]

\* the queues of at most n messages
RECURSIVE Queues(_)
Queues(n) ==
  IF n = 0 THEN { << >> }
  ELSE LET shorter == Queues(n - 1)
       IN  shorter \cup { Append(q, b) : q \in { x \in shorter : Len(x) = n - 1 },
                                        b \in Bodies }

\* basic_nack(requeue=True): the broker puts the message back where it was,
\* at the head of the queue
Requeued(queue, body) == << body >> \o queue

\* consume: with prefetch_count=1 the broker hands the consumer the next
\* message of its queue once the one before is settled, and the callback runs
consume(s) ==
  /\ pc[s] = "consuming"
  /\ channel[s].queue # << >>
  /\ channel' = [channel EXCEPT
                   ![s].queue = Tail(@),
                   ![s].delivery = [body |-> Head(channel[s].queue),
                                    acks |-> 0, nacks |-> 0]]
  /\ frame' = [frame EXCEPT ![s].outcome = None]
  /\ Goto(s, "loads")
  /\ UNCHANGED << scheduler_vars, now, ret, calls, call_limit, outcomes,
                  ml_vars, cache_vars, observations, rotation, limiter >>

\* event = json.loads(body); post_id = event.get('post_id')
handle_loads(s) ==
  /\ pc[s] = "loads"
  /\ Goto(s, IF channel[s].delivery.body = "not json" THEN "except" ELSE "select")
  /\ UNCHANGED << scheduler_vars, now, ret, calls, call_limit, outcomes, frame,
                  ml_vars, cache_vars, observations, rotation, limiter, channel >>

\* the SELECT of the post; if not post: basic_ack and return
handle_select(s) ==
  /\ pc[s] = "select"
  /\ IF channel[s].delivery.body = "post 1"
       THEN /\ Goto(s, "work")
            /\ UNCHANGED frame
       ELSE /\ Goto(s, "ack")
            /\ frame' = [frame EXCEPT ![s].outcome = "unknown"]
  /\ UNCHANGED << scheduler_vars, now, ret, calls, call_limit, outcomes,
                  ml_vars, cache_vars, observations, rotation, limiter, channel >>

\* analyze, store and publish: the ML analyzer publishes post.analyzed, which
\* the broker routes to the queue of the country aggregation
handle_work(s) ==
  /\ pc[s] = "work"
  /\ channel' =
       IF s = "ml_analyzer"
         THEN [channel EXCEPT !["country_aggregation"].queue =
                 Append(@, channel[s].delivery.body)]
         ELSE channel
  /\ frame' = [frame EXCEPT ![s].outcome = "completed"]
  /\ Goto(s, "ack")
  /\ UNCHANGED << scheduler_vars, now, ret, calls, call_limit, outcomes,
                  ml_vars, cache_vars, observations, rotation, limiter >>

\* the database or the analysis raises
handle_raises(s) ==
  /\ pc[s] \in { "select", "work" }
  /\ calls < call_limit
  /\ calls' = calls + 1
  /\ Goto(s, "except")
  /\ UNCHANGED << scheduler_vars, now, ret, call_limit, outcomes, frame,
                  ml_vars, cache_vars, observations, rotation, limiter, channel >>

\* ch.basic_ack(delivery_tag=method.delivery_tag)
basic_ack(s) ==
  /\ pc[s] = "ack"
  /\ channel' = [channel EXCEPT ![s].delivery.acks = @ + 1]
  /\ Goto(s, "return")
  /\ UNCHANGED << scheduler_vars, now, ret, calls, call_limit, outcomes, frame,
                  ml_vars, cache_vars, observations, rotation, limiter >>

\* except Exception: ch.basic_nack(delivery_tag=..., requeue=True)
basic_nack(s) ==
  /\ pc[s] = "except"
  /\ channel' = [channel EXCEPT
                   ![s].delivery.nacks = @ + 1,
                   ![s].queue = Requeued(@, channel[s].delivery.body)]
  /\ frame' = [frame EXCEPT ![s].outcome = "raised"]
  /\ Goto(s, "return")
  /\ UNCHANGED << scheduler_vars, now, ret, calls, call_limit, outcomes,
                  ml_vars, cache_vars, observations, rotation, limiter >>

\* the callback returns
handle_return(s) ==
  /\ pc[s] = "return"
  /\ channel' = [channel EXCEPT ![s].delivery = NoDelivery]
  /\ Goto(s, "consuming")
  /\ UNCHANGED << scheduler_vars, now, ret, calls, call_limit, outcomes, frame,
                  ml_vars, cache_vars, observations, rotation, limiter >>

\* the two consumers, each with the messages waiting in its queue
ConsumersInit ==
  /\ SchedulerInit({ << >> })
  /\ \A c \in DOMAIN raw_posts : raw_posts[c] = 0
  /\ pc = [s \in Services |-> "consuming"]
  /\ frame = [s \in Services |-> [outcome |-> None]]
  /\ ModelsInit
  /\ CacheInit
  /\ observations = << >>
  /\ rotation = NoRotation
  /\ limiter = NoLimiter
  /\ \E queues \in [Services -> Queues(MaxMessages)] :
       channel = [s \in Services |-> [queue |-> queues[s], delivery |-> NoDelivery]]
  /\ now = 0
  /\ ret = NoRet
  /\ calls = 0
  /\ call_limit = MaxFaults

\* the steps of the consumer of a service
ConsumerSteps(s) ==
  \/ consume(s)
  \/ handle_loads(s)
  \/ handle_select(s)
  \/ handle_work(s)
  \/ basic_ack(s)
  \/ basic_nack(s)
  \/ handle_return(s)

ConsumersNext ==
  \/ \E s \in Services : consume(s)
  \/ \E s \in Services : handle_loads(s)
  \/ \E s \in Services : handle_select(s)
  \/ \E s \in Services : handle_work(s)
  \/ \E s \in Services : handle_raises(s)
  \/ \E s \in Services : basic_ack(s)
  \/ \E s \in Services : basic_nack(s)
  \/ \E s \in Services : handle_return(s)

\* a consumer that can go on goes on
SpecConsumers ==
  /\ ConsumersInit
  /\ [][ConsumersNext]_vars
  /\ \A s \in Services : WF_vars(ConsumerSteps(s))

\* C39: a message handed to a consumer is acked or nacked, never both and
\* never twice, before the callback returns: acked when the handling
\* completed or the post is unknown, nacked and back in the queue when the
\* handling raised; and every message handed to a consumer is acked at some
\* time.
C39_SettledOnceAndAcked ==
  /\ [](\A s \in Services :
          LET d == channel[s].delivery
          IN  /\ d.acks + d.nacks <= 1
              /\ pc[s] = "return" =>
                   /\ d.acks + d.nacks = 1
                   /\ d.acks = 1 <=> frame[s].outcome \in { "completed", "unknown" }
                   /\ d.nacks = 1 <=>
                        /\ frame[s].outcome = "raised"
                        /\ channel[s].queue # << >>
                        /\ Head(channel[s].queue) = d.body)
  /\ \A s \in Services, b \in Bodies :
       (channel[s].delivery.body = b) ~>
         (channel[s].delivery.body = b /\ channel[s].delivery.acks = 1)
====
